---- MODULE Spec2Model ----
(***************************************************************************)
(* Verification model of the GatewayAppUI single-page dashboard: the API   *)
(* client wrapper (axios interceptors), the polling page components, the   *)
(* upload-queue filter and the SignalR live-update provider.               *)
(***************************************************************************)
EXTENDS Integers, Sequences, FiniteSets, TLC

\* ------------------------------------------------------------------------
\* Bounds of the model
\* ------------------------------------------------------------------------
MaxRequests == 2           \* requests issued through apiClient
MaxTimers == 3             \* setInterval handles handed out
MaxPollLoads == 3          \* loads started by the polling components
MaxQueueLen == 2           \* length of a recentUploads response
MaxQueueLoads == 2         \* loadData calls of the upload queue page
MaxQueueToggles == 1       \* processor toggles of the upload queue page
MaxDashLoads == 2          \* loadDashboardData calls of the dashboard
MaxDashMounts == 1         \* mounts of the dashboard
MaxDashToggles == 1        \* service toggles of the dashboard
MaxConnects == 2           \* connectToHub calls of the SignalR provider
MaxAttempts == 4           \* connection attempts made against the hub
MaxHubEvents == 4          \* server events handled by the SignalR provider
MaxSources == 2            \* data sources of the backend
MaxSourceLoads == 2        \* loadDataSources calls of the data sources page
MaxSourceToggles == 1      \* single toggles of the data sources page
MaxSourceBulk == 1         \* bulk toggles of the data sources page
MaxProcLoads == 4          \* loads of the upload processor page
MaxProcRetries == 2        \* retries of the upload processor page
MaxSizeDigits == 5         \* base-1024 digits of a byte count
MaxUploads == 2            \* uploads listed by a queue summary
MaxValueLen == 3           \* characters of a configuration value
MaxHookPolls == 3          \* pollData calls of the polling hook
MaxHookTimers == 2         \* intervals set by the polling hook
MaxAzureRequests == 4      \* requests started by the Azure storage page

\* ------------------------------------------------------------------------
\* State
\* ------------------------------------------------------------------------
VARIABLES
    authToken,      \* localStorage['authToken']
    href,           \* window.location.href
    requests,       \* log of the requests issued through apiClient
    lastIntercept,  \* the last pass through the response interceptor
    tokenCleared,   \* a 401 or a logout removed the token, none stored since
    mounted,        \* polling component -> is it mounted
    intervals,      \* polling component -> active setInterval handles
    cleanup,        \* polling component -> handle its effect cleanup clears
    nextHandle,     \* next handle setInterval returns
    pollInFlight,   \* polling component -> loads awaiting their responses
    pollStarted,    \* polling component -> loads started, by cause
    lastStart,      \* the last load started: component, cause, mounted then
    notifications,  \* bag of the notifications shown (type, title)
    qMounted,       \* UploadQueue: is the page mounted
    qInterval,      \* UploadQueue: is its refresh interval set
    qLoading,       \* UploadQueue: loading
    processorStatus,\* UploadQueue: processorStatus
    queueData,      \* UploadQueue: queueData
    filters,        \* UploadQueue: filters
    filteredData,   \* UploadQueue: filteredData
    qInFlight,      \* UploadQueue: loadData calls awaiting Promise.all
    qOrphans,       \* loadData calls of an instance that has unmounted
    qStarted,       \* UploadQueue: loadData calls started so far
    qToggles,       \* UploadQueue: toggle requests awaiting their response
    qToggled,       \* UploadQueue: toggles clicked so far
    qTimeouts,      \* UploadQueue: pending setTimeout(() => loadData(), 1000)
    dMounted,       \* Dashboard: is the page mounted
    dInstance,      \* Dashboard: which mount the current instance is
    dInterval,      \* Dashboard: is its refresh interval set
    dLoading,       \* Dashboard: loading
    dRefreshing,    \* Dashboard: refreshing
    dashboardData,  \* Dashboard: dashboardData
    dRuns,          \* Dashboard: loadDashboardData calls awaiting allSettled
    dStarted,       \* Dashboard: loadDashboardData calls started so far
    dToggles,       \* Dashboard: toggle requests awaiting their response
    dToggled,       \* Dashboard: toggles clicked so far
    dTimeouts,      \* Dashboard: pending setTimeout(() => loadDashboardData())
    lastRun,        \* Dashboard: the loadDashboardData call that settled last
    hMounted,       \* SignalRProvider: is it mounted
    connection,     \* SignalRProvider: connection (0 is null)
    connectionStatus, \* SignalRProvider: connectionStatus
    uploadUpdates,  \* SignalRProvider: uploadUpdates
    hubs,           \* the HubConnections built by connectToHub, in order
    attempts,       \* log of the connection attempts made against the hub
    hubEvents,      \* server events handled so far (the clock of new Date())
    lastHandled,    \* upload id -> the last event handled for it
    cleanupConnection, \* the connection the effect cleanup closes over
    lastCall,       \* the last call of a utility function: arguments, result
    dsMounted,      \* DataSources: is the page mounted
    dsLoading,      \* DataSources: loading
    dataSources,    \* DataSources: dataSources
    modalVisible,   \* DataSources: modalVisible
    editingSource,  \* DataSources: editingSource
    dsLoads,        \* DataSources: loadDataSources calls awaiting a response
    dsStarted,      \* DataSources: loadDataSources calls started so far
    dsToggles,      \* DataSources: single toggles awaiting their response
    dsToggled,      \* DataSources: single toggles clicked so far
    lastToggle,     \* DataSources: the single toggle that moved last
    dsBulk,         \* DataSources: the bulk toggles, in order
    upMounted,      \* UploadProcessor: is the page mounted
    upLoading,      \* UploadProcessor: loading
    retrying,       \* UploadProcessor: retrying
    upReprocess,    \* UploadProcessor: ids whose reprocess request is in flight
    queueItems,     \* UploadProcessor: queueItems
    summary,        \* UploadProcessor: summary
    activeTab,      \* UploadProcessor: activeTab
    upLoads,        \* UploadProcessor: loads awaiting a response, by kind
    upStarted,      \* UploadProcessor: loads started so far
    upRetried,      \* UploadProcessor: retries clicked so far
    lastResponse,   \* UploadProcessor: tab -> last response of its endpoint
    hookPhase,      \* usePolling: "initial", "mounted" or "unmounted"
    immediate,      \* usePolling: the immediate parameter
    mountedRef,     \* usePolling: mountedRef.current
    intervalRef,    \* usePolling: intervalRef.current
    hookTimers,     \* usePolling: interval handles not yet cleared
    hookData,       \* usePolling: data
    hookLoading,    \* usePolling: loading
    hookError,      \* usePolling: error
    polls,          \* usePolling: pollData calls awaiting asyncFunction
    pollCalls,      \* usePolling: pollData calls that passed the guard
    hookHandles,    \* usePolling: interval handles created so far
    lastPoll,       \* usePolling: the pollData step that ran last
    azMounted,      \* AzureStorage: is the page mounted
    azLoading,      \* AzureStorage: loading
    azureInfo,      \* AzureStorage: azureInfo
    containers,     \* AzureStorage: containers
    selectedContainer, \* AzureStorage: selectedContainer
    blobs,          \* AzureStorage: blobs
    infoLoads,      \* AzureStorage: getAzureStorageInfo requests in flight
    blobLoads,      \* AzureStorage: listBlobs requests in flight
    blobDeletes,    \* AzureStorage: deleteBlob requests in flight
    azStarted,      \* AzureStorage: requests started so far, by kind
    lastListed      \* AzureStorage: the listBlobs response applied last

apiVars == <<authToken, href, requests, lastIntercept, tokenCleared>>
pollVars == <<mounted, intervals, cleanup, nextHandle, pollInFlight,
              pollStarted, lastStart>>

queueVars == <<qMounted, qInterval, qLoading, processorStatus, queueData,
               filters, filteredData, qInFlight, qOrphans, qStarted,
               qToggles, qToggled, qTimeouts>>

dashVars == <<dMounted, dInstance, dInterval, dLoading, dRefreshing,
              dashboardData, dRuns, dStarted, dToggles, dToggled, dTimeouts,
              lastRun>>

hubVars == <<hMounted, connection, connectionStatus, uploadUpdates, hubs,
             attempts, hubEvents, lastHandled, cleanupConnection>>

utilVars == <<lastCall>>

sourceVars == <<dsMounted, dsLoading, dataSources, modalVisible,
                editingSource, dsLoads, dsStarted, dsToggles, dsToggled,
                lastToggle, dsBulk>>

procVars == <<upMounted, upLoading, retrying, upReprocess, queueItems,
              summary, activeTab, upLoads, upStarted, upRetried,
              lastResponse>>

hookVars == <<hookPhase, immediate, mountedRef, intervalRef, hookTimers,
              hookData, hookLoading, hookError, polls, pollCalls,
              hookHandles, lastPoll>>

azureVars == <<azMounted, azLoading, azureInfo, containers,
               selectedContainer, blobs, infoLoads, blobLoads, blobDeletes,
               azStarted, lastListed>>

vars == <<apiVars, pollVars, notifications, queueVars, dashVars, hubVars,
          utilVars, sourceVars, procVars, hookVars, azureVars>>

\* ------------------------------------------------------------------------
\* API client wrapper (services/apiService.ts)
\* ------------------------------------------------------------------------
NoToken == "null"                      \* localStorage.getItem -> null
Tokens == {"t1", "t2"}
StoredValues == Tokens \cup {""}       \* what a login page may store
NoHeader == <<>>
Statuses == {401, 403, 500}

\* JavaScript truthiness of a localStorage value
Truthy(v) == v # NoToken /\ v # ""

\* variant: the guard tests token !== null instead of truthiness
RequestInterceptorNotNull(config, stored) ==
    IF stored # NoToken /\ config.hasHeaders
    THEN [config EXCEPT !.Authorization = <<"Bearer", stored>>]
    ELSE config

\* request interceptor: config.headers.Authorization = `Bearer ${token}`
RequestInterceptor(config, stored) ==
    IF Truthy(stored) /\ config.hasHeaders
    THEN [config EXCEPT !.Authorization = <<"Bearer", stored>>]
    ELSE config

\* a request config as axios.create builds it
NewConfig == [hasHeaders |-> TRUE, Authorization |-> NoHeader]

\* variant: every 4xx status is treated as unauthorized
ResponseErrorInterceptorAny4xx(error, stored, location) ==
    IF error.hasResponse /\ error.status >= 400 /\ error.status < 500
    THEN [authToken |-> NoToken, href |-> "/login", outcome |-> "rejected"]
    ELSE [authToken |-> stored, href |-> location, outcome |-> "rejected"]

\* response interceptor, error branch
ResponseErrorInterceptor(error, stored, location) ==
    IF error.hasResponse /\ error.status = 401
    THEN [authToken |-> NoToken, href |-> "/login", outcome |-> "rejected"]
    ELSE [authToken |-> stored, href |-> location, outcome |-> "rejected"]

\* response interceptor, success branch
ResponseInterceptor(state) == "fulfilled"

Errors ==
    {[hasResponse |-> TRUE, status |-> s] : s \in Statuses}
        \cup {[hasResponse |-> FALSE, status |-> 0]}

InitApi ==
    /\ authToken \in {NoToken, "t1"}
    /\ href = "/"
    /\ requests = <<>>
    /\ lastIntercept = [kind |-> "none"]
    /\ tokenCleared = FALSE

\* the login page (outside this bundle) stores a token
StoreToken(v) ==
    /\ authToken' = v
    /\ tokenCleared' = (tokenCleared /\ ~Truthy(v))
    /\ UNCHANGED <<href, requests, lastIntercept>>
    /\ UNCHANGED <<pollVars, notifications, queueVars, dashVars, hubVars,
                   utilVars, sourceVars, procVars, hookVars, azureVars>>

\* apiClient.get/post/put/delete: the request interceptor runs at issue time
SendRequest ==
    /\ Len(requests) < MaxRequests
    /\ LET config == RequestInterceptor(NewConfig, authToken)
       IN requests' = Append(requests,
              [state |-> "pending",
               Authorization |-> config.Authorization,
               storedAtIssue |-> authToken,
               clearedAtIssue |-> tokenCleared])
    /\ UNCHANGED <<authToken, href, lastIntercept, tokenCleared>>
    /\ UNCHANGED <<pollVars, notifications, queueVars, dashVars, hubVars,
                   utilVars, sourceVars, procVars, hookVars, azureVars>>

ReceiveResponse(i) ==
    /\ requests[i].state = "pending"
    /\ requests' = [requests EXCEPT ![i].state = ResponseInterceptor(@)]
    /\ lastIntercept' = [kind |-> "response"]
    /\ UNCHANGED <<authToken, href, tokenCleared>>
    /\ UNCHANGED <<pollVars, notifications, queueVars, dashVars, hubVars,
                   utilVars, sourceVars, procVars, hookVars, azureVars>>

ReceiveError(i, error) ==
    /\ requests[i].state = "pending"
    /\ LET r == ResponseErrorInterceptor(error, authToken, href)
       IN /\ authToken' = r.authToken
          /\ href' = r.href
          /\ requests' = [requests EXCEPT ![i].state = r.outcome]
          /\ lastIntercept' =
                 [kind |-> "error", error |-> error,
                  storedBefore |-> authToken, hrefBefore |-> href,
                  storedAfter |-> r.authToken, hrefAfter |-> r.href,
                  outcome |-> r.outcome]
          /\ tokenCleared' = (tokenCleared \/ (error.hasResponse /\ error.status = 401))
    /\ UNCHANGED <<pollVars, notifications, queueVars, dashVars, hubVars,
                   utilVars, sourceVars, procVars, hookVars, azureVars>>

\* AppLayout user menu
onUserMenuClick(key) ==
    /\ IF key = "logout"
       THEN authToken' = NoToken /\ href' = "/login" /\ tokenCleared' = TRUE
       ELSE UNCHANGED <<authToken, href, tokenCleared>>
    /\ UNCHANGED <<requests, lastIntercept>>
    /\ UNCHANGED <<pollVars, notifications, queueVars, dashVars, hubVars,
                   utilVars, sourceVars, procVars, hookVars, azureVars>>

\* ------------------------------------------------------------------------
\* Polling lifecycle: useEffect(() => { load(); const interval =
\* setInterval(load, ms); return () => clearInterval(interval); }, [])
\* ------------------------------------------------------------------------
Components == {"Dashboard", "SystemHealth", "FileMonitoring", "UploadQueue",
               "SystemStatusIndicator"}

\* refresh period of each component, in milliseconds
RefreshMs ==
    [c \in Components |->
        CASE c = "Dashboard" -> 30000
          [] c = "SystemHealth" -> 30000
          [] c = "FileMonitoring" -> 15000
          [] c = "UploadQueue" -> 10000
          [] c = "SystemStatusIndicator" -> 30000]

NoHandle == 0

InitPoll ==
    /\ mounted = [c \in Components |-> FALSE]
    /\ intervals = [c \in Components |-> {}]
    /\ cleanup = [c \in Components |-> NoHandle]
    /\ nextHandle = 1
    /\ pollInFlight = [c \in Components |-> 0]
    /\ pollStarted = [c \in Components |-> [mount |-> 0, interval |-> 0]]
    /\ lastStart = [cause |-> "none"]

PollLoads ==
    LET Sum(c) == pollStarted[c].mount + pollStarted[c].interval
    IN Sum("Dashboard") + Sum("SystemHealth") + Sum("FileMonitoring")
         + Sum("UploadQueue") + Sum("SystemStatusIndicator")

\* the effect body: one load, then one setInterval
setIntervalEffect(c) ==
    /\ intervals' = [intervals EXCEPT ![c] = @ \cup {nextHandle}]
    /\ cleanup' = [cleanup EXCEPT ![c] = nextHandle]
    /\ nextHandle' = nextHandle + 1

\* variant: the effect returns no cleanup
clearIntervalCleanupMissing(c) ==
    /\ intervals' = intervals
    /\ cleanup' = [cleanup EXCEPT ![c] = NoHandle]

\* the effect cleanup: clearInterval(interval)
clearIntervalCleanup(c) ==
    /\ intervals' = [intervals EXCEPT ![c] = @ \ {cleanup[c]}]
    /\ cleanup' = [cleanup EXCEPT ![c] = NoHandle]

StartPollLoad(c, cause) ==
    /\ pollInFlight' = [pollInFlight EXCEPT ![c] = @ + 1]
    /\ pollStarted' = [pollStarted EXCEPT ![c][cause] = @ + 1]
    /\ lastStart' = [cause |-> cause, component |-> c,
                     mountedThen |-> mounted[c]]

Mount(c) ==
    /\ ~mounted[c]
    /\ nextHandle <= MaxTimers
    /\ PollLoads < MaxPollLoads
    /\ mounted' = [mounted EXCEPT ![c] = TRUE]
    /\ StartPollLoad(c, "mount")
    /\ setIntervalEffect(c)
    /\ UNCHANGED <<apiVars, notifications, queueVars, dashVars, hubVars,
                   utilVars, sourceVars, procVars, hookVars, azureVars>>

Unmount(c) ==
    /\ mounted[c]
    /\ mounted' = [mounted EXCEPT ![c] = FALSE]
    /\ clearIntervalCleanup(c)
    /\ UNCHANGED <<nextHandle, pollInFlight, pollStarted, lastStart>>
    /\ UNCHANGED <<apiVars, notifications, queueVars, dashVars, hubVars,
                   utilVars, sourceVars, procVars, hookVars, azureVars>>

\* a live interval handle fires and calls the load function
IntervalTick(c, h) ==
    /\ h \in intervals[c]
    /\ PollLoads < MaxPollLoads
    /\ StartPollLoad(c, "interval")
    /\ UNCHANGED <<mounted, intervals, cleanup, nextHandle>>
    /\ UNCHANGED <<apiVars, notifications, queueVars, dashVars, hubVars,
                   utilVars, sourceVars, procVars, hookVars, azureVars>>

\* the requests of one load settle (fulfilled or rejected)
PollLoadSettles(c) ==
    /\ pollInFlight[c] > 0
    /\ pollInFlight' = [pollInFlight EXCEPT ![c] = @ - 1]
    /\ UNCHANGED <<mounted, intervals, cleanup, nextHandle, pollStarted,
                   lastStart>>
    /\ UNCHANGED <<apiVars, notifications, queueVars, dashVars, hubVars,
                   utilVars, sourceVars, procVars, hookVars, azureVars>>

\* ------------------------------------------------------------------------
\* Notifications (contexts/NotificationContext)
\* ------------------------------------------------------------------------
\* showNotification(type, title, ...) adds one notification to the bag
showNotification(bag, type, title) ==
    LET n == <<type, title>>
    IN IF n \in DOMAIN bag
       THEN [bag EXCEPT ![n] = @ + 1]
       ELSE [m \in DOMAIN bag \cup {n} |-> IF m = n THEN 1 ELSE bag[m]]

Shown(type, title) ==
    IF <<type, title>> \in DOMAIN notifications
    THEN notifications[<<type, title>>]
    ELSE 0

\* ------------------------------------------------------------------------
\* Upload queue page (pages/UploadQueue)
\* ------------------------------------------------------------------------
\* String.prototype.toLowerCase, by character
ToLowerChar(ch) ==
    CASE ch = "A" -> "a"
      [] ch = "B" -> "b"
      [] ch = "C" -> "c"
      [] ch = "D" -> "d"
      [] ch = "E" -> "e"
      [] ch = "F" -> "f"
      [] ch = "G" -> "g"
      [] ch = "H" -> "h"
      [] ch = "I" -> "i"
      [] ch = "J" -> "j"
      [] ch = "K" -> "k"
      [] ch = "L" -> "l"
      [] ch = "M" -> "m"
      [] ch = "N" -> "n"
      [] ch = "O" -> "o"
      [] ch = "P" -> "p"
      [] ch = "Q" -> "q"
      [] ch = "R" -> "r"
      [] ch = "S" -> "s"
      [] ch = "T" -> "t"
      [] ch = "U" -> "u"
      [] ch = "V" -> "v"
      [] ch = "W" -> "w"
      [] ch = "X" -> "x"
      [] ch = "Y" -> "y"
      [] ch = "Z" -> "z"
      [] OTHER -> ch

toLowerCase(str) == [i \in 1..Len(str) |-> ToLowerChar(str[i])]

\* str.split('.').pop(): the text after the last '.', the whole string
\* when it has none
splitPop(str) ==
    LET dots == {i \in 1..Len(str) : str[i] = "."}
        last == CHOOSE i \in dots : \A j \in dots : j <= i
    IN IF dots = {} THEN str ELSE SubSeq(str, last + 1, Len(str))

\* String.prototype.includes
includes(str, sub) ==
    \E i \in 0..(Len(str) - Len(sub)) : SubSeq(str, i + 1, i + Len(sub)) = sub

\* toLowerCase on the status labels and the status filter values
toLowerLabel(label) ==
    CASE label = "Pending" -> "pending"
      [] label = "Processing" -> "processing"
      [] label = "Uploading" -> "uploading"
      [] label = "Completed" -> "completed"
      [] label = "Failed" -> "failed"
      [] label = "Canceled" -> "canceled"
      [] label = "Unknown" -> "unknown"
      [] OTHER -> label

\* FileStatus enum -> label
getStatusString(status) ==
    CASE status = 0 -> "Pending"
      [] status = 1 -> "Processing"
      [] status = 2 -> "Uploading"
      [] status = 3 -> "Completed"
      [] status = 4 -> "Failed"
      [] status = 5 -> "Canceled"
      [] OTHER -> "Unknown"

JsonExt == <<"j", "s", "o", "n">>
ImageExts == {<<"j", "p", "g">>, <<"j", "p", "e", "g">>, <<"p", "n", "g">>,
              <<"g", "i", "f">>, <<"b", "m", "p">>}

\* the callback of the file type filter
fileTypeFilter(item, fileType) ==
    LET extension == toLowerCase(splitPop(item.fileName))
    IN IF fileType = "json" THEN extension = JsonExt
       ELSE IF fileType = "image" THEN extension \in ImageExts
       ELSE IF fileType = "other"
            THEN extension \notin (ImageExts \cup {JsonExt})
       ELSE TRUE

\* variant: the search compares without lower-casing the file name
searchFilterCaseSensitive(item, search) ==
    includes(item.fileName, toLowerCase(search))

\* the callback of the search filter
searchFilter(item, search) ==
    includes(toLowerCase(item.fileName), toLowerCase(search))

\* applyFilters: three successive Array.filter passes over a copy
applyFilters(data, f) ==
    LET byStatus ==
            IF f.status # "all"
            THEN SelectSeq(data, LAMBDA item :
                     toLowerLabel(getStatusString(item.status))
                         = toLowerLabel(f.status))
            ELSE data
        byType ==
            IF f.fileType # "all"
            THEN SelectSeq(byStatus, LAMBDA item :
                     fileTypeFilter(item, f.fileType))
            ELSE byStatus
        bySearch ==
            IF f.search # <<>>
            THEN SelectSeq(byType, LAMBDA item : searchFilter(item, f.search))
            ELSE byType
    IN bySearch

\* the recentUploads a backend may return
UploadPool ==
    {[id |-> 1, fileName |-> <<"a", ".", "j", "s", "o", "n">>, status |-> 0],
     [id |-> 2, fileName |-> <<"P", ".", "P", "N", "G">>, status |-> 4],
     [id |-> 3, fileName |-> <<"j", "s", "o", "n">>, status |-> 5],
     [id |-> 4, fileName |-> <<"n", ".", "t", "x", "t">>, status |-> 9]}

RECURSIVE SeqsUpTo(_, _)
SeqsUpTo(S, n) ==
    IF n = 0 THEN {<<>>}
    ELSE LET shorter == SeqsUpTo(S, n - 1)
         IN shorter \cup {Append(q, x) : q \in shorter, x \in S}

QueueResponses == SeqsUpTo(UploadPool, MaxQueueLen)
BriefResponses == SeqsUpTo(UploadPool, 1)

\* the values the filter controls offer
StatusOptions == {"all", "pending", "processing", "completed", "failed",
                  "canceled"}
FileTypeOptions == {"all", "json", "image", "other"}
SearchInputs == {<<>>, <<"J", "s">>, <<"p">>}

DefaultFilters ==
    [status |-> "all", fileType |-> "all", source |-> "all", search |-> <<>>]

NoStatus == [isNull |-> TRUE, isRunning |-> FALSE]
ProcessorStatuses == {[isNull |-> FALSE, isRunning |-> b] : b \in BOOLEAN}

InitQueue ==
    /\ qMounted = FALSE
    /\ qInterval = FALSE
    /\ qLoading = TRUE
    /\ processorStatus = NoStatus
    /\ queueData = <<>>
    /\ filters = DefaultFilters
    /\ filteredData = <<>>
    /\ qInFlight = 0
    /\ qOrphans = 0
    /\ qStarted = 0
    /\ qToggles = {}
    /\ qToggled = 0
    /\ qTimeouts = 0

NotQueue ==
    UNCHANGED <<apiVars, pollVars, dashVars, hubVars, utilVars, sourceVars,
                procVars, hookVars, azureVars>>

\* loadData up to its await: setLoading(true), two requests go out
loadDataStart(live) ==
    /\ qStarted < MaxQueueLoads
    /\ qStarted' = qStarted + 1
    /\ IF live
       THEN /\ qLoading' = TRUE
            /\ qInFlight' = qInFlight + 1
            /\ UNCHANGED qOrphans
       ELSE /\ qOrphans' = qOrphans + 1
            /\ UNCHANGED <<qLoading, qInFlight>>

\* mount: fresh useState values, then both effects run
QueueMount ==
    /\ ~qMounted
    /\ qMounted' = TRUE
    /\ qInterval' = TRUE
    /\ loadDataStart(TRUE)
    /\ filteredData' = applyFilters(queueData, filters)
    /\ UNCHANGED <<processorStatus, queueData, filters, qToggles, qToggled,
                   qTimeouts, notifications>>
    /\ NotQueue

\* unmount: clearInterval; the component state is discarded
QueueUnmount ==
    /\ qMounted
    /\ qMounted' = FALSE
    /\ qInterval' = FALSE
    /\ qLoading' = TRUE
    /\ processorStatus' = NoStatus
    /\ queueData' = <<>>
    /\ filters' = DefaultFilters
    /\ filteredData' = <<>>
    /\ qOrphans' = qOrphans + qInFlight
    /\ qInFlight' = 0
    /\ UNCHANGED <<qStarted, qToggles, qToggled, qTimeouts, notifications>>
    /\ NotQueue

QueueIntervalTick ==
    /\ qInterval
    /\ loadDataStart(TRUE)
    /\ UNCHANGED <<qMounted, qInterval, processorStatus, queueData, filters,
                   filteredData, qToggles, qToggled, qTimeouts,
                   notifications>>
    /\ NotQueue

\* the Refresh button: onClick={loadData}
QueueRefreshClick ==
    /\ qMounted
    /\ loadDataStart(TRUE)
    /\ UNCHANGED <<qMounted, qInterval, processorStatus, queueData, filters,
                   filteredData, qToggles, qToggled, qTimeouts,
                   notifications>>
    /\ NotQueue

\* Promise.all fulfils: both setters, finally setLoading(false), then the
\* [queueData, filters] effect
loadDataFulfilled(status, uploads) ==
    /\ qInFlight > 0
    /\ qInFlight' = qInFlight - 1
    /\ processorStatus' = status
    /\ queueData' = uploads
    /\ qLoading' = FALSE
    /\ filteredData' = applyFilters(uploads, filters)
    /\ UNCHANGED <<qMounted, qInterval, filters, qOrphans, qStarted,
                   qToggles, qToggled, qTimeouts, notifications>>
    /\ NotQueue

\* Promise.all rejects: catch shows 'Load Error', finally setLoading(false)
loadDataRejected ==
    /\ qInFlight > 0
    /\ qInFlight' = qInFlight - 1
    /\ notifications' = showNotification(notifications, "error", "Load Error")
    /\ qLoading' = FALSE
    /\ UNCHANGED <<qMounted, qInterval, processorStatus, queueData, filters,
                   filteredData, qOrphans, qStarted, qToggles, qToggled,
                   qTimeouts>>
    /\ NotQueue

\* a loadData of an unmounted instance settles: its setters are no-ops
orphanLoadSettles(ok) ==
    /\ qOrphans > 0
    /\ qOrphans' = qOrphans - 1
    /\ notifications' =
           IF ok THEN notifications
           ELSE showNotification(notifications, "error", "Load Error")
    /\ UNCHANGED <<qMounted, qInterval, qLoading, processorStatus, queueData,
                   filters, filteredData, qInFlight, qStarted, qToggles,
                   qToggled, qTimeouts>>
    /\ NotQueue

\* handleProcessorToggle up to its await
QueueToggleClick ==
    /\ qMounted
    /\ qToggled < MaxQueueToggles
    /\ qToggled' = qToggled + 1
    /\ qToggles' = qToggles \cup
           {IF ~processorStatus.isNull /\ processorStatus.isRunning
            THEN "pause" ELSE "start"}
    /\ UNCHANGED <<qMounted, qInterval, qLoading, processorStatus, queueData,
                   filters, filteredData, qInFlight, qOrphans, qStarted,
                   qTimeouts, notifications>>
    /\ NotQueue

\* handleProcessorToggle after its await
QueueToggleSettles(t, ok) ==
    /\ t \in qToggles
    /\ qToggles' = qToggles \ {t}
    /\ IF ok
       THEN /\ notifications' = showNotification(notifications, "success",
                  IF t = "pause" THEN "Processor Paused"
                  ELSE "Processor Started")
            /\ qTimeouts' = qTimeouts + 1
       ELSE /\ notifications' =
                  showNotification(notifications, "error", "Toggle Error")
            /\ UNCHANGED qTimeouts
    /\ UNCHANGED <<qMounted, qInterval, qLoading, processorStatus, queueData,
                   filters, filteredData, qInFlight, qOrphans, qStarted,
                   qToggled>>
    /\ NotQueue

\* setTimeout(() => loadData(), 1000) fires
QueueTimeoutFires ==
    /\ qTimeouts > 0
    /\ qTimeouts' = qTimeouts - 1
    /\ loadDataStart(qMounted)
    /\ UNCHANGED <<qMounted, qInterval, processorStatus, queueData, filters,
                   filteredData, qToggles, qToggled, notifications>>
    /\ NotQueue

\* a filter control changes: setFilters, then the [queueData, filters] effect
SetFilters(f) ==
    /\ qMounted
    /\ f # filters
    /\ filters' = f
    /\ filteredData' = applyFilters(queueData, f)
    /\ UNCHANGED <<qMounted, qInterval, qLoading, processorStatus, queueData,
                   qInFlight, qOrphans, qStarted, qToggles, qToggled,
                   qTimeouts, notifications>>
    /\ NotQueue

\* ------------------------------------------------------------------------
\* Dashboard page (pages/Dashboard)
\* ------------------------------------------------------------------------
\* the five requests of loadDashboardData
DashRequests == {"processor", "monitoring", "queue", "health", "azure"}

\* the fields of dashboardData and the request each is filled from
DashFields == {"processorStatus", "monitoringStatus", "queueSummary",
               "recentUploads", "systemHealth", "azureInfo"}

RequestOf(field) ==
    CASE field = "processorStatus" -> "processor"
      [] field = "monitoringStatus" -> "monitoring"
      [] field = "queueSummary" -> "queue"
      [] field = "recentUploads" -> "queue"
      [] field = "systemHealth" -> "health"
      [] field = "azureInfo" -> "azure"

\* the outcomes of Promise.allSettled explored: nothing, all but one
\* request, or everything fulfilled
SettleOutcomes ==
    {F \in SUBSET DashRequests : Cardinality(F) \in {0, 4, 5}}

\* a field holds 0 (null, or [] for recentUploads) or the number of the
\* loadDashboardData call whose response it was taken from
Unset == 0
InitialDashboardData == [f \in DashFields |-> Unset]

\* isRunning as reported in response n (null?.isRunning is undefined)
IsRunning(n) == n % 2 = 1

\* variant: newData starts from the initial state, not from dashboardData
settledDataFromBlank(run, fulfilled) ==
    [f \in DashFields |->
        IF RequestOf(f) \in fulfilled THEN run.id
        ELSE InitialDashboardData[f]]

\* newData = { ...dashboardData } with every fulfilled response assigned
settledData(run, fulfilled) ==
    [f \in DashFields |->
        IF RequestOf(f) \in fulfilled THEN run.id ELSE run.snapshot[f]]

InitDash ==
    /\ dMounted = FALSE
    /\ dInstance = 0
    /\ dInterval = FALSE
    /\ dLoading = TRUE
    /\ dRefreshing = FALSE
    /\ dashboardData = InitialDashboardData
    /\ dRuns = {}
    /\ dStarted = 0
    /\ dToggles = {}
    /\ dToggled = 0
    /\ dTimeouts = {}
    /\ lastRun = [cause |-> "none"]

NotDash ==
    UNCHANGED <<apiVars, pollVars, queueVars, hubVars, utilVars, sourceVars,
                procVars, hookVars, azureVars>>

\* loadDashboardData up to its await, called from a closure that captured
\* the dashboardData value snapshot in instance inst; shown is the
\* dashboardData the page holds at the time of the call
loadDashboardDataStart(cause, snapshot, inst) ==
    /\ dStarted < MaxDashLoads
    /\ dStarted' = dStarted + 1
    /\ dRuns' = dRuns \cup {[id |-> dStarted + 1, cause |-> cause,
                             snapshot |-> snapshot, inst |-> inst,
                             shown |-> dashboardData]}

\* mount: fresh useState values; the effect loads and sets the interval
DashMount ==
    /\ ~dMounted
    /\ dInstance < MaxDashMounts
    /\ dMounted' = TRUE
    /\ dInstance' = dInstance + 1
    /\ dInterval' = TRUE
    /\ dLoading' = TRUE
    /\ loadDashboardDataStart("mount", InitialDashboardData, dInstance + 1)
    /\ UNCHANGED <<dRefreshing, dashboardData, dToggles, dToggled, dTimeouts,
                   lastRun, notifications>>
    /\ NotDash

\* unmount: clearInterval; the component state is discarded
DashUnmount ==
    /\ dMounted
    /\ dMounted' = FALSE
    /\ dInterval' = FALSE
    /\ dLoading' = TRUE
    /\ dRefreshing' = FALSE
    /\ dashboardData' = InitialDashboardData
    /\ UNCHANGED <<dInstance, dRuns, dStarted, dToggles, dToggled, dTimeouts,
                   lastRun, notifications>>
    /\ NotDash

\* the interval calls the loadDashboardData of the first render
DashIntervalTick ==
    /\ dInterval
    /\ dLoading' = TRUE
    /\ loadDashboardDataStart("interval", InitialDashboardData, dInstance)
    /\ UNCHANGED <<dMounted, dInstance, dInterval, dRefreshing, dashboardData,
                   dToggles, dToggled, dTimeouts, lastRun, notifications>>
    /\ NotDash

\* handleRefresh; the button is rendered when loading is false and ignores
\* clicks while refreshing
handleRefresh ==
    /\ dMounted
    /\ ~dLoading
    /\ ~dRefreshing
    /\ dRefreshing' = TRUE
    /\ dLoading' = TRUE
    /\ loadDashboardDataStart("refresh", dashboardData, dInstance)
    /\ UNCHANGED <<dMounted, dInstance, dInterval, dashboardData, dToggles,
                   dToggled, dTimeouts, lastRun, notifications>>
    /\ NotDash

\* Promise.allSettled resolves; fulfilled is the set of fulfilled requests
loadDashboardDataSettles(run, fulfilled) ==
    /\ run \in dRuns
    /\ dRuns' = dRuns \ {run}
    /\ LET live == dMounted /\ run.inst = dInstance
       IN /\ IF live
             THEN /\ dashboardData' = settledData(run, fulfilled)
                  /\ dLoading' = FALSE
                  /\ dRefreshing' = FALSE
             ELSE UNCHANGED <<dashboardData, dLoading, dRefreshing>>
          /\ lastRun' = [cause |-> run.cause, id |-> run.id,
                         snapshot |-> run.snapshot, fulfilled |-> fulfilled,
                         live |-> live, inst |-> run.inst,
                         shown |-> run.shown]
    /\ UNCHANGED <<dMounted, dInstance, dInterval, dStarted, dToggles,
                   dToggled, dTimeouts, notifications>>
    /\ NotDash

\* handleProcessorToggle / handleMonitoringToggle up to the await
handleToggle(service) ==
    /\ dMounted
    /\ ~dLoading
    /\ dToggled < MaxDashToggles
    /\ dToggled' = dToggled + 1
    /\ LET field == IF service = "processor" THEN "processorStatus"
                    ELSE "monitoringStatus"
       IN dToggles' = dToggles \cup
              {[service |-> service,
                request |-> IF IsRunning(dashboardData[field])
                            THEN "stop" ELSE "start",
                snapshot |-> dashboardData, inst |-> dInstance]}
    /\ UNCHANGED <<dMounted, dInstance, dInterval, dLoading, dRefreshing,
                   dashboardData, dRuns, dStarted, dTimeouts, lastRun,
                   notifications>>
    /\ NotDash

ToggleTitle(t) ==
    IF t.service = "processor"
    THEN (IF t.request = "stop" THEN "Processor Stopped"
          ELSE "Processor Started")
    ELSE (IF t.request = "stop" THEN "Monitoring Stopped"
          ELSE "Monitoring Started")

\* handleProcessorToggle / handleMonitoringToggle after the await
handleToggleSettles(t, ok) ==
    /\ t \in dToggles
    /\ dToggles' = dToggles \ {t}
    /\ IF ok
       THEN /\ notifications' =
                  showNotification(notifications, "success", ToggleTitle(t))
            /\ dTimeouts' = dTimeouts \cup
                  {[snapshot |-> t.snapshot, inst |-> t.inst]}
       ELSE /\ notifications' =
                  showNotification(notifications, "error", "Control Error")
            /\ UNCHANGED dTimeouts
    /\ UNCHANGED <<dMounted, dInstance, dInterval, dLoading, dRefreshing,
                   dashboardData, dRuns, dStarted, dToggled, lastRun>>
    /\ NotDash

\* setTimeout(() => loadDashboardData(), 1000) fires
DashTimeoutFires(to) ==
    /\ to \in dTimeouts
    /\ dTimeouts' = dTimeouts \ {to}
    /\ dLoading' = (IF dMounted /\ to.inst = dInstance THEN TRUE ELSE dLoading)
    /\ loadDashboardDataStart("timeout", to.snapshot, to.inst)
    /\ UNCHANGED <<dMounted, dInstance, dInterval, dRefreshing, dashboardData,
                   dToggles, dToggled, lastRun, notifications>>
    /\ NotDash

\* ------------------------------------------------------------------------
\* SignalR provider (contexts/SignalRContext)
\* ------------------------------------------------------------------------
UploadIds == {"u1", "u2"}

\* the UploadProgressData messages the hub sends
ProgressMessages ==
    {[UploadId |-> "u1", FileName |-> "a.json", PercentComplete |-> 10,
      BytesUploaded |-> 1, TotalBytes |-> 10],
     [UploadId |-> "u1", FileName |-> "a.json", PercentComplete |-> 50,
      BytesUploaded |-> 5, TotalBytes |-> 10],
     [UploadId |-> "u2", FileName |-> "b.png", PercentComplete |-> 50,
      BytesUploaded |-> 2, TotalBytes |-> 4]}

\* the UploadCompletedData / UploadFailedData messages, by their UploadId
FinishMessages == {[UploadId |-> x] : x \in UploadIds}

NoConnection == 0

\* variant: the progress handler appends without removing the older entry
onUploadProgressUpdatedAppends(prev, data, now) ==
    Append(prev,
           [uploadId |-> data.UploadId, fileName |-> data.FileName,
            percentComplete |-> data.PercentComplete,
            bytesUploaded |-> data.BytesUploaded,
            totalBytes |-> data.TotalBytes, timestamp |-> now])

\* the updater of on('UploadProgressUpdated'); now is new Date()
onUploadProgressUpdated(prev, data, now) ==
    LET updated ==
            SelectSeq(prev, LAMBDA item : item.uploadId # data.UploadId)
    IN Append(updated,
              [uploadId |-> data.UploadId, fileName |-> data.FileName,
               percentComplete |-> data.PercentComplete,
               bytesUploaded |-> data.BytesUploaded,
               totalBytes |-> data.TotalBytes, timestamp |-> now])

\* variant: the completion handler only notifies
onUploadCompletedKeeps(prev, data) == prev

\* the updater of on('UploadCompleted')
onUploadCompleted(prev, data) ==
    SelectSeq(prev, LAMBDA item : item.uploadId # data.UploadId)

\* the updater of on('UploadFailed')
onUploadFailed(prev, data) ==
    SelectSeq(prev, LAMBDA item : item.uploadId # data.UploadId)

InitHub ==
    /\ hMounted = FALSE
    /\ connection = NoConnection
    /\ connectionStatus = "Disconnected"
    /\ uploadUpdates = <<>>
    /\ hubs = <<>>
    /\ attempts = <<>>
    /\ hubEvents = 0
    /\ lastHandled = [x \in UploadIds |->
                        [kind |-> "none", data |-> <<>>, time |-> 0,
                         finished |-> FALSE]]
    /\ cleanupConnection = NoConnection

\* what the provider leaves alone
NotProvider ==
    UNCHANGED <<apiVars, pollVars, queueVars, dashVars, utilVars, sourceVars,
                procVars, hookVars, azureVars>>

\* what every step after the effect has run leaves alone: the cleanup keeps
\* the connection value of the render that set the effect up
NotHub ==
    /\ NotProvider
    /\ UNCHANGED cleanupConnection

\* the pending attempt of connection c settles with result
settleAttempt(c, result) ==
    [i \in 1..Len(attempts) |->
        IF attempts[i].conn = c /\ attempts[i].result = "pending"
        THEN [attempts[i] EXCEPT !.result = result]
        ELSE attempts[i]]

\* connectToHub up to await newConnection.start(): the connection is built
\* with automatic reconnect, its handlers are registered and start() is
\* called
connectToHub(cause) ==
    /\ Len(hubs) < MaxConnects
    /\ Len(attempts) < MaxAttempts
    /\ hubs' = Append(hubs, [link |-> "starting", pc |-> "start",
                             retries |-> 0])
    /\ attempts' = Append(attempts, [conn |-> Len(hubs) + 1, cause |-> cause,
                                     result |-> "pending"])

\* the provider, at the root of App, mounts: its effect calls connectToHub
\* and returns a cleanup that closes over connection as this render sees it
HubMount ==
    /\ ~hMounted
    /\ hubs = <<>>
    /\ hMounted' = TRUE
    /\ connectToHub("mount")
    /\ cleanupConnection' = connection
    /\ UNCHANGED <<connection, connectionStatus, uploadUpdates, hubEvents,
                   lastHandled, notifications>>
    /\ NotProvider

\* the provider unmounts: the cleanup runs if (connection) connection.stop()
\* on the value it closed over
HubUnmount ==
    /\ hMounted
    /\ hMounted' = FALSE
    /\ hubs' = (IF cleanupConnection # NoConnection
                THEN [hubs EXCEPT ![cleanupConnection].link = "closed"]
                ELSE hubs)
    /\ UNCHANGED <<connection, connectionStatus, uploadUpdates, attempts,
                   hubEvents, lastHandled, notifications>>
    /\ NotHub

\* a consumer calls reconnect(), which is connectToHub
reconnect ==
    /\ hMounted
    /\ connectToHub("user")
    /\ UNCHANGED <<hMounted, connection, connectionStatus, uploadUpdates,
                   hubEvents, lastHandled, notifications>>
    /\ NotHub

\* start() resolves: setConnection, setConnectionStatus('Connected') and the
\* first invoke
StartSucceeds(c) ==
    /\ c \in 1..Len(hubs)
    /\ hubs[c].link = "starting"
    /\ hubs' = [hubs EXCEPT ![c].link = "connected", ![c].pc = "joinUpload"]
    /\ attempts' = settleAttempt(c, "ok")
    /\ IF hMounted
       THEN /\ connection' = c
            /\ connectionStatus' = "Connected"
       ELSE UNCHANGED <<connection, connectionStatus>>
    /\ UNCHANGED <<hMounted, uploadUpdates, hubEvents, lastHandled,
                   notifications>>
    /\ NotHub

\* variant: the catch block shows the notification and leaves the status
connectToHubCatchKeepsStatus ==
    /\ connectionStatus' = connectionStatus
    /\ notifications' =
           showNotification(notifications, "error", "Connection Error")

\* the catch block of connectToHub
connectToHubCatch ==
    /\ connectionStatus' = (IF hMounted THEN "Error" ELSE connectionStatus)
    /\ notifications' =
           showNotification(notifications, "error", "Connection Error")

\* start() rejects and leaves the connection in the state link
startRejected(c, link) ==
    /\ c \in 1..Len(hubs)
    /\ hubs[c].link = "starting"
    /\ hubs' = [hubs EXCEPT ![c].link = link, ![c].pc = "failed"]
    /\ attempts' = settleAttempt(c, "failed")
    /\ connectToHubCatch
    /\ UNCHANGED <<hMounted, connection, uploadUpdates, hubEvents,
                   lastHandled>>
    /\ NotHub

\* variant: a failed start() enters the automatic reconnect cycle
StartFailsReconnects(c) == startRejected(c, "reconnecting")

\* start() rejects: the connection is disconnected, the catch block runs
StartFails(c) == startRejected(c, "closed")

\* invoke('JoinUploadGroup') or invoke('JoinProcessorGroup') resolves
JoinFulfilled(c) ==
    /\ c \in 1..Len(hubs)
    /\ hubs[c].link = "connected"
    /\ hubs[c].pc \in {"joinUpload", "joinProcessor"}
    /\ hubs' = [hubs EXCEPT ![c].pc = IF @ = "joinUpload"
                                      THEN "joinProcessor" ELSE "done"]
    /\ UNCHANGED <<hMounted, connection, connectionStatus, uploadUpdates,
                   attempts, hubEvents, lastHandled, notifications>>
    /\ NotHub

\* one of the two invokes rejects: the catch block runs
JoinRejected(c) ==
    /\ c \in 1..Len(hubs)
    /\ hubs[c].pc \in {"joinUpload", "joinProcessor"}
    /\ hubs' = [hubs EXCEPT ![c].pc = "failed"]
    /\ connectToHubCatch
    /\ UNCHANGED <<hMounted, connection, uploadUpdates, attempts, hubEvents,
                   lastHandled>>
    /\ NotHub

\* an established connection is lost: the client built with
\* withAutomaticReconnect() calls onreconnecting
ConnectionLost(c) ==
    /\ c \in 1..Len(hubs)
    /\ hubs[c].link = "connected"
    /\ hubs' = [hubs EXCEPT ![c].link = "reconnecting", ![c].retries = 0]
    /\ connectionStatus' =
           (IF hMounted THEN "Reconnecting" ELSE connectionStatus)
    /\ UNCHANGED <<hMounted, connection, uploadUpdates, attempts, hubEvents,
                   lastHandled, notifications>>
    /\ NotHub

\* an automatic reconnect attempt succeeds: onreconnected
ReconnectSucceeds(c) ==
    /\ c \in 1..Len(hubs)
    /\ hubs[c].link = "reconnecting"
    /\ Len(attempts) < MaxAttempts
    /\ hubs' = [hubs EXCEPT ![c].link = "connected", ![c].retries = 0]
    /\ attempts' = Append(attempts, [conn |-> c, cause |-> "auto",
                                     result |-> "ok"])
    /\ connectionStatus' =
           (IF hMounted THEN "Connected" ELSE connectionStatus)
    /\ UNCHANGED <<hMounted, connection, uploadUpdates, hubEvents,
                   lastHandled, notifications>>
    /\ NotHub

\* an automatic reconnect attempt fails: the client will try again or give
\* up
ReconnectFails(c) ==
    /\ c \in 1..Len(hubs)
    /\ hubs[c].link = "reconnecting"
    /\ Len(attempts) < MaxAttempts
    /\ hubs' = [hubs EXCEPT ![c].retries = @ + 1]
    /\ attempts' = Append(attempts, [conn |-> c, cause |-> "auto",
                                     result |-> "failed"])
    /\ UNCHANGED <<hMounted, connection, connectionStatus, uploadUpdates,
                   hubEvents, lastHandled, notifications>>
    /\ NotHub

\* the client gives up reconnecting: onclose
ReconnectGivesUp(c) ==
    /\ c \in 1..Len(hubs)
    /\ hubs[c].link = "reconnecting"
    /\ hubs[c].retries >= 1
    /\ hubs' = [hubs EXCEPT ![c].link = "closed"]
    /\ IF hMounted
       THEN /\ connectionStatus' = "Disconnected"
            /\ connection' = NoConnection
       ELSE UNCHANGED <<connection, connectionStatus>>
    /\ UNCHANGED <<hMounted, uploadUpdates, attempts, hubEvents, lastHandled,
                   notifications>>
    /\ NotHub

\* connection c receives UploadProgressUpdated
HandleProgress(c, data) ==
    /\ c \in 1..Len(hubs)
    /\ hubs[c].link = "connected"
    /\ hubEvents < MaxHubEvents
    /\ hubEvents' = hubEvents + 1
    /\ uploadUpdates' =
           (IF hMounted
            THEN onUploadProgressUpdated(uploadUpdates, data, hubEvents + 1)
            ELSE uploadUpdates)
    /\ lastHandled' =
           [lastHandled EXCEPT ![data.UploadId] =
               [kind |-> "progress", data |-> data, time |-> hubEvents + 1,
                finished |-> @.finished]]
    /\ UNCHANGED <<hMounted, connection, connectionStatus, hubs, attempts,
                   notifications>>
    /\ NotHub

\* connection c receives UploadCompleted
HandleCompleted(c, data) ==
    /\ c \in 1..Len(hubs)
    /\ hubs[c].link = "connected"
    /\ hubEvents < MaxHubEvents
    /\ hubEvents' = hubEvents + 1
    /\ notifications' =
           showNotification(notifications, "success", "Upload Completed")
    /\ uploadUpdates' =
           (IF hMounted THEN onUploadCompleted(uploadUpdates, data)
            ELSE uploadUpdates)
    /\ lastHandled' =
           [lastHandled EXCEPT ![data.UploadId] =
               [kind |-> "completed", data |-> data, time |-> hubEvents + 1,
                finished |-> TRUE]]
    /\ UNCHANGED <<hMounted, connection, connectionStatus, hubs, attempts>>
    /\ NotHub

\* connection c receives UploadFailed
HandleFailed(c, data) ==
    /\ c \in 1..Len(hubs)
    /\ hubs[c].link = "connected"
    /\ hubEvents < MaxHubEvents
    /\ hubEvents' = hubEvents + 1
    /\ notifications' =
           showNotification(notifications, "error", "Upload Failed")
    /\ uploadUpdates' =
           (IF hMounted THEN onUploadFailed(uploadUpdates, data)
            ELSE uploadUpdates)
    /\ lastHandled' =
           [lastHandled EXCEPT ![data.UploadId] =
               [kind |-> "failed", data |-> data, time |-> hubEvents + 1,
                finished |-> TRUE]]
    /\ UNCHANGED <<hMounted, connection, connectionStatus, hubs, attempts>>
    /\ NotHub

\* connection c receives UploadProcessorStatusChanged
HandleProcessorStatus(c) ==
    /\ c \in 1..Len(hubs)
    /\ hubs[c].link = "connected"
    /\ hubEvents < MaxHubEvents
    /\ hubEvents' = hubEvents + 1
    /\ notifications' =
           showNotification(notifications, "info", "Processor Status Changed")
    /\ UNCHANGED <<hMounted, connection, connectionStatus, uploadUpdates,
                   hubs, attempts, lastHandled>>
    /\ NotHub

\* ------------------------------------------------------------------------
\* Utility functions (services/apiService.ts)
\* ------------------------------------------------------------------------
\* JavaScript values
Undefined == [t |-> "undefined"]
Null == [t |-> "null"]
Str(s) == [t |-> "string", v |-> s]
Text(chars) == [t |-> "string", chars |-> chars]   \* a string, by character
Num(n) == [t |-> "number", v |-> n]
TypeError == [t |-> "TypeError"]

\* ToBoolean
IsTruthy(x) ==
    CASE x.t \in {"undefined", "null"} -> FALSE
      [] x.t = "string" ->
             IF "v" \in DOMAIN x THEN x.v # "" ELSE x.chars # <<>>
      [] x.t = "number" -> x.v # 0
      [] x.t = "boolean" -> x.b
      [] OTHER -> TRUE

\* a || b
Or(a, b) == IF IsTruthy(a) THEN a ELSE b

\* x?.name: undefined on undefined and null, the property of an object,
\* undefined on a primitive that has no such property
OptionalGet(x, name) ==
    IF x.t = "object" /\ name \in DOMAIN x THEN x[name] ELSE Undefined

\* a parameter with a default value takes it when the argument is undefined
DefaultParameter(arg, default) == IF arg = Undefined THEN default ELSE arg

\* variant: Error is consulted before message
handleApiErrorErrorFirst(error, defaultMessage) ==
    IF error.t \in {"undefined", "null"} THEN TypeError
    ELSE LET response == OptionalGet(error, "response")
             data == OptionalGet(response, "data")
         IN [message |->
                 Or(OptionalGet(data, "Error"),
                    Or(OptionalGet(data, "message"),
                       Or(OptionalGet(error, "message"),
                          DefaultParameter(defaultMessage,
                                           Str("An error occurred"))))),
             details |->
                 Or(OptionalGet(data, "Details"),
                    Or(OptionalGet(data, "details"), Str(""))),
             status |-> OptionalGet(response, "status"),
             data |-> data]

\* handleApiError; reading error.response of undefined or null throws
handleApiError(error, defaultMessage) ==
    IF error.t \in {"undefined", "null"} THEN TypeError
    ELSE LET response == OptionalGet(error, "response")
             data == OptionalGet(response, "data")
         IN [message |->
                 Or(OptionalGet(data, "message"),
                    Or(OptionalGet(data, "Error"),
                       Or(OptionalGet(error, "message"),
                          DefaultParameter(defaultMessage,
                                           Str("An error occurred"))))),
             details |->
                 Or(OptionalGet(data, "Details"),
                    Or(OptionalGet(data, "details"), Str(""))),
             status |-> OptionalGet(response, "status"),
             data |-> data]

\* the case labels of getStatusColor
SuccessLabels ==
    {<<"c", "o", "m", "p", "l", "e", "t", "e", "d">>,
     <<"s", "u", "c", "c", "e", "s", "s">>,
     <<"a", "c", "t", "i", "v", "e">>,
     <<"c", "o", "n", "n", "e", "c", "t", "e", "d">>}
FailureLabels ==
    {<<"f", "a", "i", "l", "e", "d">>,
     <<"e", "r", "r", "o", "r">>,
     <<"d", "i", "s", "c", "o", "n", "n", "e", "c", "t", "e", "d">>}
BusyLabels ==
    {<<"p", "e", "n", "d", "i", "n", "g">>,
     <<"p", "r", "o", "c", "e", "s", "s", "i", "n", "g">>,
     <<"u", "p", "l", "o", "a", "d", "i", "n", "g">>,
     <<"w", "a", "r", "n", "i", "n", "g">>}
IdleLabels ==
    {<<"p", "a", "u", "s", "e", "d">>,
     <<"i", "n", "a", "c", "t", "i", "v", "e">>,
     <<"d", "i", "s", "a", "b", "l", "e", "d">>}

Digits == <<"0", "1", "2", "3", "4", "5", "6", "7", "8", "9">>

\* String(value) of the values a JSON response may hold
RECURSIVE StringOf(_)
StringOf(x) ==
    CASE x.t = "string" -> x
      [] x.t = "number" -> IF "text" \in DOMAIN x THEN Text(x.text)
                           ELSE Text(<<Digits[x.v + 1]>>)
      [] x.t = "boolean" -> IF x.b THEN Text(<<"t", "r", "u", "e">>)
                            ELSE Text(<<"f", "a", "l", "s", "e">>)
      [] x.t = "undefined" ->
             Text(<<"u", "n", "d", "e", "f", "i", "n", "e", "d">>)
      [] x.t = "null" -> Text(<<"n", "u", "l", "l">>)
      [] x.t = "array" ->
             IF Len(x.items) = 0 THEN Text(<<>>)
             ELSE LET first == IF x.items[1].t \in {"undefined", "null"}
                               THEN <<>>
                               ELSE StringOf(x.items[1]).chars
                      rest == StringOf([x EXCEPT !.items = Tail(@)]).chars
                  IN IF Len(x.items) = 1 THEN Text(first)
                     ELSE Text(first \o <<",">> \o rest)
      [] OTHER -> Text(<<"[", "o", "b", "j", "e", "c", "t", " ",
                         "O", "b", "j", "e", "c", "t", "]">>)

\* variant: the label is compared as it was passed in
getStatusColorCaseSensitive(status) ==
    LET statusStr == IF status.t = "string" THEN status
                     ELSE StringOf(Or(status, Text(<<>>)))
        label == statusStr.chars
    IN CASE label \in SuccessLabels -> "#52c41a"
         [] label \in FailureLabels -> "#ff4d4f"
         [] label \in BusyLabels -> "#faad14"
         [] label \in IdleLabels -> "#d9d9d9"
         [] OTHER -> "#1890ff"

\* getStatusColor
getStatusColor(status) ==
    LET statusStr == IF status.t = "string" THEN status
                     ELSE StringOf(Or(status, Text(<<>>)))
        label == toLowerCase(statusStr.chars)
    IN CASE label \in SuccessLabels -> "#52c41a"
         [] label \in FailureLabels -> "#ff4d4f"
         [] label \in BusyLabels -> "#faad14"
         [] label \in IdleLabels -> "#d9d9d9"
         [] OTHER -> "#1890ff"

UpperLetters ==
    {"A", "B", "C", "D", "E", "F", "G", "H", "I", "J", "K", "L", "M", "N",
     "O", "P", "Q", "R", "S", "T", "U", "V", "W", "X", "Y", "Z"}

\* the upper-case spelling of a lower-case word, and its capitalised one
UpperCased(word) ==
    [i \in 1..Len(word) |->
        IF \E u \in UpperLetters : ToLowerChar(u) = word[i]
        THEN CHOOSE u \in UpperLetters : ToLowerChar(u) = word[i]
        ELSE word[i]]

Capitalised(word) ==
    IF Len(word) = 0 THEN word
    ELSE <<UpperCased(word)[1]>> \o Tail(word)

\* words that are no case label of getStatusColor
OtherWords ==
    {<<"c", "a", "n", "c", "e", "l", "e", "d">>,
     <<"u", "n", "k", "n", "o", "w", "n">>,
     <<>>,
     <<"a", "r", "c", "h", "i", "v", "e", "d">>,
     <<"t", "r", "u", "e">>,
     <<"3">>,
     <<"c", "o", "m", "p", "l", "e", "t", "e">>}

\* the statuses passed to getStatusColor: words in three spellings, and
\* the other values a JSON field may hold
StatusWords ==
    SuccessLabels \cup FailureLabels \cup BusyLabels \cup IdleLabels
        \cup OtherWords

StatusValues ==
    {Text(w) : w \in StatusWords}
        \cup {Text(UpperCased(w)) : w \in StatusWords}
        \cup {Text(Capitalised(w)) : w \in StatusWords}
        \cup {Undefined, Null, Num(0), Num(3), [t |-> "object"],
              [t |-> "boolean", b |-> TRUE], [t |-> "boolean", b |-> FALSE],
              [t |-> "array", items |-> <<>>],
              [t |-> "array",
               items |-> <<Text(<<"F", "a", "i", "l", "e", "d">>)>>],
              [t |-> "array",
               items |-> <<Text(<<"f", "a", "i", "l", "e", "d">>),
                           Text(<<"e", "r", "r", "o", "r">>)>>]}

\* the values passed to getStatusString
FileStatusValues == -1..7

\* the values a text field of a response body or of an error may hold
TextValues(text) == {Undefined, Str(""), Str(text)}

\* response bodies: none, null, a plain text, or an object with any of the
\* fields message, Error, Details, details
ResponseBodies ==
    {Undefined, Null, Str("Bad Gateway")}
        \cup {[t |-> "object", message |-> m, Error |-> e, Details |-> d,
               details |-> dd] :
                 m \in TextValues("msg") \cup {Null},
                 e \in TextValues("Err"),
                 d \in TextValues("Det"),
                 dd \in TextValues("det")}

\* the errors a catch block may hand over: an AxiosError with or without a
\* response, or nothing
ThrownErrors ==
    {[t |-> "object", message |-> m, response |-> r] :
        m \in TextValues("Network Error"),
        r \in {Undefined}
               \cup {[t |-> "object", status |-> Num(500), data |-> b] :
                        b \in ResponseBodies}}
        \cup {Undefined, Null}

DefaultMessages == {Undefined, Str(""), Str("Load failed")}

InitUtil == lastCall = [fn |-> "none"]

NotUtil ==
    UNCHANGED <<apiVars, pollVars, notifications, queueVars, dashVars,
                hubVars, sourceVars, procVars, hookVars, azureVars>>

\* a catch block calls handleApiError(error, defaultMessage)
CallHandleApiError(error, defaultMessage) ==
    /\ lastCall' = [fn |-> "handleApiError", error |-> error,
                    defaultMessage |-> defaultMessage,
                    result |-> handleApiError(error, defaultMessage)]
    /\ NotUtil

\* a column renderer calls getStatusString(status)
CallGetStatusString(status) ==
    /\ lastCall' = [fn |-> "getStatusString", status |-> status,
                    result |-> getStatusString(status)]
    /\ NotUtil

\* a Tag is rendered with color={getStatusColor(status)}
CallGetStatusColor(status) ==
    /\ lastCall' = [fn |-> "getStatusColor", status |-> status,
                    result |-> getStatusColor(status)]
    /\ NotUtil

\* formatFileSize: a byte count is written in base k, least significant
\* digit first, so that counts of a terabyte and more can be written
K == 1024

sizes == <<"Bytes", "KB", "MB", "GB">>

\* the decimal digits of a natural number, as Number.prototype.toString
RECURSIVE DecimalOf(_)
DecimalOf(n) ==
    IF n < 10 THEN <<Digits[n + 1]>>
    ELSE DecimalOf(n \div 10) \o <<Digits[(n % 10) + 1]>>

\* bytes === 0
IsZeroCount(bytes) == \A j \in DOMAIN bytes : bytes[j] = 0

\* Math.floor(Math.log(bytes) / Math.log(k)): the position of the leading
\* digit (the quotient of the two logarithms is exact at the powers of k and
\* far enough from an integer elsewhere for counts of three significant
\* digits)
FloorLog(bytes) ==
    (CHOOSE j \in DOMAIN bytes :
        bytes[j] # 0 /\ \A h \in DOMAIN bytes : h > j => bytes[h] = 0) - 1

DigitAt(bytes, j) == IF j \in DOMAIN bytes THEN bytes[j] ELSE 0

\* (bytes / Math.pow(k, i)).toFixed(2), in hundredths: the division by a
\* power of two is exact and toFixed rounds the exact value, a tie upwards;
\* the count has no digit below the third significant one
toFixed2(bytes, i) ==
    LET v == DigitAt(bytes, i) * K + DigitAt(bytes, i - 1)
    IN DigitAt(bytes, i + 1) * 100 + (200 * v + K * K) \div (2 * K * K)

\* parseFloat(text) + '': the number without its trailing zeros
parseFloatText(hundredths) ==
    LET cents == hundredths % 100
    IN DecimalOf(hundredths \div 100) \o
       (IF cents = 0 THEN <<>>
        ELSE IF cents % 10 = 0 THEN <<".", Digits[(cents \div 10) + 1]>>
        ELSE <<".", Digits[(cents \div 10) + 1], Digits[(cents % 10) + 1]>>)

\* the result is number + ' ' + unit
formatFileSize(bytes) ==
    IF IsZeroCount(bytes) THEN [number |-> <<"0">>, unit |-> "Bytes"]
    ELSE LET i == FloorLog(bytes)
         IN [number |-> parseFloatText(toFixed2(bytes, i)),
             unit |-> IF i + 1 \in DOMAIN sizes THEN sizes[i + 1]
                      ELSE "undefined"]

\* digits the byte counts are built from
DigitSamples == {0, 1, 128, 512, 1023}

\* byte counts of up to MaxSizeDigits digits and three significant digits
SizeInputs ==
    {<<0>>} \cup
    UNION {{bytes \in [1..n -> DigitSamples] :
               /\ bytes[n] # 0
               /\ \A j \in 1..n : j < n - 2 => bytes[j] = 0} :
           n \in 1..MaxSizeDigits}

\* a size column or label is rendered with formatFileSize(bytes)
CallFormatFileSize(bytes) ==
    /\ lastCall' = [fn |-> "formatFileSize", bytes |-> bytes,
                    result |-> formatFileSize(bytes)]
    /\ NotUtil

\* a ?? b
NullishCoalesce(a, b) == IF a.t \in {"undefined", "null"} THEN b ELSE a

\* one element of the map over recentUploads; now is new Date().toISOString()
normalizeUpload(u, now) ==
    [FileName |->
         NullishCoalesce(NullishCoalesce(OptionalGet(u, "FileName"),
                                         OptionalGet(u, "fileName")),
                         Text(<<>>)),
     FileSizeBytes |->
         NullishCoalesce(NullishCoalesce(OptionalGet(u, "FileSizeBytes"),
                                         OptionalGet(u, "fileSize")),
                         Num(0)),
     CreatedAt |->
         NullishCoalesce(NullishCoalesce(OptionalGet(u, "CreatedAt"),
                                         OptionalGet(u, "createdAt")),
                         now),
     Status |->
         NullishCoalesce(NullishCoalesce(OptionalGet(u, "Status"),
                                         OptionalGet(u, "status")),
                         Text(<<"P", "e", "n", "d", "i", "n", "g">>)),
     ErrorMessage |-> OptionalGet(u, "ErrorMessage"),
     ProgressPercent |-> OptionalGet(u, "ProgressPercent")]

\* (queueData.recentUploads || []).map(...)
normalizeRecentUploads(recentUploads, now) ==
    LET list == Or(recentUploads, [t |-> "array", items |-> <<>>])
    IN [i \in 1..Len(list.items) |-> normalizeUpload(list.items[i], now)]

\* an upload object: every field the backend shapes use, undefined if absent
UploadObject(fields) ==
    [name \in {"t", "FileName", "fileName", "FileSizeBytes", "fileSizeBytes",
               "fileSize", "CreatedAt", "createdAt", "startedAt", "Status",
               "status", "ErrorMessage", "ProgressPercent"} |->
        IF name = "t" THEN "object"
        ELSE IF name \in DOMAIN fields THEN fields[name] ELSE Undefined]

\* the uploads a queue summary may list: PascalCase, the camelCase of
\* models/QueueSummary (fileSizeBytes, numeric status), the camelCase of
\* models/Requests (fileSize, startedAt), and uploads with fields missing
UploadShapes ==
    {UploadObject([FileName |-> Text(<<"a">>), FileSizeBytes |-> Num(7),
                   CreatedAt |-> Text(<<"1">>),
                   Status |-> Text(<<"F", "a", "i", "l", "e", "d">>),
                   ErrorMessage |-> Text(<<"e">>),
                   ProgressPercent |-> Num(5)]),
     UploadObject([fileName |-> Text(<<"b">>), fileSizeBytes |-> Num(8),
                   createdAt |-> Text(<<"2">>), status |-> Num(0)]),
     UploadObject([fileName |-> Text(<<"c">>), fileSize |-> Num(9),
                   startedAt |-> Text(<<"3">>),
                   status |-> Text(<<"F", "a", "i", "l", "e", "d">>)]),
     UploadObject([FileName |-> Text(<<>>), FileSizeBytes |-> Num(0),
                   CreatedAt |-> Text(<<"4">>), Status |-> Null]),
     UploadObject([fileName |-> Text(<<"d">>), fileSize |-> Null,
                   createdAt |-> Text(<<"5">>)]),
     UploadObject([FileName |-> Text(<<"a">>), fileName |-> Text(<<"b">>),
                   FileSizeBytes |-> Num(7), fileSize |-> Num(9)]),
     UploadObject(<<>>)}

\* the recentUploads of a queue summary: absent, or up to MaxUploads uploads
RecentUploadLists ==
    {Undefined, Null} \cup
    {[t |-> "array", items |-> items] :
        items \in UNION {[1..n -> UploadShapes] : n \in 0..MaxUploads}}

\* the dashboard normalizes the recentUploads of a fulfilled queue summary
CallNormalizeRecentUploads(recentUploads, now) ==
    /\ lastCall' = [fn |-> "normalizeRecentUploads",
                    recentUploads |-> recentUploads, now |-> now,
                    result |-> normalizeRecentUploads(recentUploads, now)]
    /\ NotUtil

\* Settings: a configuration value goes into the form and back
RECURSIVE TrimStart(_)
TrimStart(chars) ==
    IF chars # <<>> /\ Head(chars) = " " THEN TrimStart(Tail(chars))
    ELSE chars

RECURSIVE TrimEnd(_)
TrimEnd(chars) ==
    IF chars # <<>> /\ chars[Len(chars)] = " "
    THEN TrimEnd(SubSeq(chars, 1, Len(chars) - 1))
    ELSE chars

RECURSIVE DropLeadingZeros(_)
DropLeadingZeros(chars) ==
    IF chars # <<>> /\ Head(chars) = "0" THEN DropLeadingZeros(Tail(chars))
    ELSE chars

RECURSIVE DropTrailingZeros(_)
DropTrailingZeros(chars) ==
    IF chars # <<>> /\ chars[Len(chars)] = "0"
    THEN DropTrailingZeros(SubSeq(chars, 1, Len(chars) - 1))
    ELSE chars

NaN == [t |-> "number", nan |-> TRUE]

\* Number(value) of a string: white space is trimmed, the empty string is 0,
\* a signed decimal literal is its value and any other text is NaN; a number
\* is held as the text String() prints for it, which for these short
\* literals is the literal without sign '+', leading and trailing zeros
NumberOf(chars) ==
    LET trimmed == TrimEnd(TrimStart(chars))
        signed == trimmed # <<>> /\ Head(trimmed) \in {"-", "+"}
        body == IF signed THEN Tail(trimmed) ELSE trimmed
        dots == {j \in DOMAIN body : body[j] = "."}
        dot == IF dots = {} THEN Len(body) + 1 ELSE CHOOSE j \in dots : TRUE
        whole == DropLeadingZeros(SubSeq(body, 1, dot - 1))
        fraction == DropTrailingZeros(SubSeq(body, dot + 1, Len(body)))
        digits == {j \in DOMAIN body :
                      \E d \in DOMAIN Digits : body[j] = Digits[d]}
    IN IF trimmed = <<>> THEN [t |-> "number", text |-> <<"0">>]
       ELSE IF \/ Cardinality(dots) > 1
               \/ digits = {}
               \/ digits \cup dots # DOMAIN body
       THEN NaN
       ELSE [t |-> "number",
             text |->
                 (IF trimmed[1] = "-" /\ whole \o fraction # <<>>
                  THEN <<"-">> ELSE <<>>)
                 \o (IF whole = <<>> THEN <<"0">> ELSE whole)
                 \o (IF fraction = <<>> THEN <<>> ELSE <<".">> \o fraction)]

\* the forEach body of loadConfigurations: the form value of config.value
toFormValue(value) ==
    IF value = <<"t", "r", "u", "e">> THEN [t |-> "boolean", b |-> TRUE]
    ELSE IF value = <<"f", "a", "l", "s", "e">>
    THEN [t |-> "boolean", b |-> FALSE]
    ELSE IF NumberOf(value) # NaN /\ value # <<>> THEN NumberOf(value)
    ELSE Text(value)

\* the request handleSaveFile and handleSaveApi send for a form value
setConfigRequest(config, value) ==
    [key |-> config.key, value |-> StringOf(value).chars,
     description |-> config.description, category |-> config.category]

\* the characters configuration values are built from
ValueChars == {"0", "1", ".", "-", " ", "x"}

\* configuration values: the two booleans and every text of up to
\* MaxValueLen characters
ConfigValues ==
    {<<"t", "r", "u", "e">>, <<"f", "a", "l", "s", "e">>} \cup
    UNION {[1..n -> ValueChars] : n \in 0..MaxValueLen}

Configurations ==
    {[key |-> "Key", value |-> value, description |-> "d",
      category |-> "General"] : value \in ConfigValues}

\* loadConfigurations puts the entry into the form, and the user saves the
\* form without editing the field
LoadThenSave(config) ==
    /\ lastCall' = [fn |-> "setConfigRequest", config |-> config,
                    formValue |-> toFormValue(config.value),
                    request |->
                        setConfigRequest(config, toFormValue(config.value))]
    /\ NotUtil

\* ------------------------------------------------------------------------
\* Data sources pages (pages/FileDataSources, pages/APIDataSources,
\* pages/DataSources)
\* ------------------------------------------------------------------------
\* DataSourceType
LocalFolder == 0
Api == 1

\* the data sources of the backend: odd ids are folders, even ids are APIs
SourceType(id) == IF id % 2 = 1 THEN LocalFolder ELSE Api

Sources ==
    {[id |-> id, sourceType |-> SourceType(id), isEnabled |-> e] :
        id \in 1..MaxSources, e \in BOOLEAN}

\* the lists getDataSources may return: the first n sources of the backend
\* in id order, each enabled or not
RECURSIVE ListsOf(_)
ListsOf(n) ==
    IF n = 0 THEN {<<>>}
    ELSE {Append(l, s) : l \in ListsOf(n - 1),
                         s \in {x \in Sources : x.id = n}}

SourceLists == UNION {ListsOf(n) : n \in 0..MaxSources}

NoSource == [id |-> 0]

InitSources ==
    /\ dsMounted = FALSE
    /\ dsLoading = TRUE
    /\ dataSources = <<>>
    /\ modalVisible = FALSE
    /\ editingSource = NoSource
    /\ dsLoads = 0
    /\ dsStarted = 0
    /\ dsToggles = {}
    /\ dsToggled = 0
    /\ lastToggle = [n |-> 0]
    /\ dsBulk = <<>>

NotSources ==
    UNCHANGED <<apiVars, pollVars, queueVars, dashVars, hubVars, utilVars,
                procVars, hookVars, azureVars>>

\* loadDataSources up to its await
loadDataSourcesStart ==
    /\ dsStarted < MaxSourceLoads
    /\ dsStarted' = dsStarted + 1
    /\ dsLoads' = dsLoads + 1
    /\ dsLoading' = TRUE

\* the page mounts: useEffect(() => { loadDataSources(); }, [])
SourcesMount ==
    /\ ~dsMounted
    /\ dsMounted' = TRUE
    /\ loadDataSourcesStart
    /\ UNCHANGED <<dataSources, modalVisible, editingSource, dsToggles,
                   dsToggled, lastToggle, dsBulk, notifications>>
    /\ NotSources

\* the Refresh button
SourcesRefreshClick ==
    /\ dsMounted
    /\ ~modalVisible
    /\ loadDataSourcesStart
    /\ UNCHANGED <<dsMounted, dataSources, modalVisible, editingSource,
                   dsToggles, dsToggled, lastToggle, dsBulk, notifications>>
    /\ NotSources

\* getDataSources resolves: setDataSources(response.data || [])
loadDataSourcesFulfilled(list) ==
    /\ dsLoads > 0
    /\ dsLoads' = dsLoads - 1
    /\ dataSources' = list
    /\ dsLoading' = FALSE
    /\ UNCHANGED <<dsMounted, modalVisible, editingSource, dsStarted,
                   dsToggles, dsToggled, lastToggle, dsBulk, notifications>>
    /\ NotSources

\* getDataSources rejects
loadDataSourcesRejected ==
    /\ dsLoads > 0
    /\ dsLoads' = dsLoads - 1
    /\ notifications' = showNotification(notifications, "error", "Load Error")
    /\ dsLoading' = FALSE
    /\ UNCHANGED <<dsMounted, dataSources, modalVisible, editingSource,
                   dsStarted, dsToggles, dsToggled, lastToggle, dsBulk>>
    /\ NotSources

\* the Add Data Source button
handleCreateNew ==
    /\ dsMounted
    /\ ~modalVisible
    /\ editingSource' = NoSource
    /\ modalVisible' = TRUE
    /\ UNCHANGED <<dsMounted, dsLoading, dataSources, dsLoads, dsStarted,
                   dsToggles, dsToggled, lastToggle, dsBulk, notifications>>
    /\ NotSources

\* variant: the Edit button is never disabled
handleEditAnyRow(i) ==
    /\ dsMounted
    /\ ~modalVisible
    /\ i \in 1..Len(dataSources)
    /\ editingSource' = dataSources[i]
    /\ modalVisible' = TRUE
    /\ UNCHANGED <<dsMounted, dsLoading, dataSources, dsLoads, dsStarted,
                   dsToggles, dsToggled, lastToggle, dsBulk, notifications>>
    /\ NotSources

\* the Edit button of row i, disabled while the record is enabled
handleEdit(i) ==
    /\ dsMounted
    /\ ~modalVisible
    /\ i \in 1..Len(dataSources)
    /\ ~dataSources[i].isEnabled
    /\ editingSource' = dataSources[i]
    /\ modalVisible' = TRUE
    /\ UNCHANGED <<dsMounted, dsLoading, dataSources, dsLoads, dsStarted,
                   dsToggles, dsToggled, lastToggle, dsBulk, notifications>>
    /\ NotSources

\* the modal is cancelled
onCancel ==
    /\ modalVisible
    /\ modalVisible' = FALSE
    /\ UNCHANGED <<dsMounted, dsLoading, dataSources, editingSource, dsLoads,
                   dsStarted, dsToggles, dsToggled, lastToggle, dsBulk,
                   notifications>>
    /\ NotSources

\* variant: the list is updated in place before the request is sent
handleToggleStatusOptimistic(i) ==
    /\ dsMounted
    /\ ~modalVisible
    /\ i \in 1..Len(dataSources)
    /\ dsToggled < MaxSourceToggles
    /\ dsToggled' = dsToggled + 1
    /\ LET source == dataSources[i]
           updatedSource == [source EXCEPT !.isEnabled = ~source.isEnabled]
       IN /\ dsToggles' = dsToggles \cup
                 {[n |-> dsToggled + 1, source |-> source,
                   request |-> updatedSource]}
          /\ lastToggle' = [n |-> dsToggled + 1, source |-> source,
                            outcome |-> "pending"]
          /\ dataSources' = [dataSources EXCEPT ![i] = updatedSource]
    /\ UNCHANGED <<dsMounted, dsLoading, modalVisible, editingSource,
                   dsLoads, dsStarted, dsBulk, notifications>>
    /\ NotSources

\* handleToggleStatus(record) up to its await: the Switch or the
\* Enable/Disable button of row i sends the update
handleToggleStatus(i) ==
    /\ dsMounted
    /\ ~modalVisible
    /\ i \in 1..Len(dataSources)
    /\ dsToggled < MaxSourceToggles
    /\ dsToggled' = dsToggled + 1
    /\ LET source == dataSources[i]
           updatedSource == [source EXCEPT !.isEnabled = ~source.isEnabled]
       IN /\ dsToggles' = dsToggles \cup
                 {[n |-> dsToggled + 1, source |-> source,
                   request |-> updatedSource]}
          /\ lastToggle' = [n |-> dsToggled + 1, source |-> source,
                            outcome |-> "pending"]
    /\ UNCHANGED <<dsMounted, dsLoading, dataSources, modalVisible,
                   editingSource, dsLoads, dsStarted, dsBulk, notifications>>
    /\ NotSources

\* handleToggleStatus after the await: success notification and reload
handleToggleStatusFulfilled(t) ==
    /\ t \in dsToggles
    /\ dsToggles' = dsToggles \ {t}
    /\ lastToggle' = [n |-> t.n, source |-> t.source, outcome |-> "ok"]
    /\ notifications' = showNotification(notifications, "success",
                                         "Data Source Status Updated")
    /\ loadDataSourcesStart
    /\ UNCHANGED <<dsMounted, dataSources, modalVisible, editingSource,
                   dsToggled, dsBulk>>
    /\ NotSources

\* variant: the catch block reloads the list as well
handleToggleStatusRejectedReloads(t) ==
    /\ t \in dsToggles
    /\ dsToggles' = dsToggles \ {t}
    /\ lastToggle' = [n |-> t.n, source |-> t.source, outcome |-> "failed"]
    /\ notifications' = showNotification(notifications, "error",
                                         "Data Source Update Error")
    /\ loadDataSourcesStart
    /\ UNCHANGED <<dsMounted, dataSources, modalVisible, editingSource,
                   dsToggled, dsBulk>>
    /\ NotSources

\* handleToggleStatus, the catch block
handleToggleStatusRejected(t) ==
    /\ t \in dsToggles
    /\ dsToggles' = dsToggles \ {t}
    /\ lastToggle' = [n |-> t.n, source |-> t.source, outcome |-> "failed"]
    /\ notifications' = showNotification(notifications, "error",
                                         "Data Source Update Error")
    /\ UNCHANGED <<dsMounted, dsLoading, dataSources, modalVisible,
                   editingSource, dsLoads, dsStarted, dsToggled, dsBulk>>
    /\ NotSources

\* the ids of a list of sources
IdsOf(list) == {list[i].id : i \in 1..Len(list)}

\* the body shared by the bulk handlers up to await Promise.all: matching
\* is the list the handler maps over
bulkToggleStart(handler, matching, enable, emptyTitle) ==
    /\ Len(dsBulk) < MaxSourceBulk
    /\ IF Len(matching) = 0
       THEN /\ notifications' =
                   showNotification(notifications, "info", emptyTitle)
            /\ dsBulk' = Append(dsBulk,
                   [handler |-> handler, enable |-> enable,
                    listed |-> dataSources, sent |-> {}, pending |-> {},
                    fulfilled |-> {}, outcome |-> "none"])
       ELSE /\ UNCHANGED notifications
            /\ dsBulk' = Append(dsBulk,
                   [handler |-> handler, enable |-> enable,
                    listed |-> dataSources,
                    sent |-> {[matching[i] EXCEPT !.isEnabled = enable] :
                                 i \in 1..Len(matching)},
                    pending |-> IdsOf(matching), fulfilled |-> {},
                    outcome |-> "pending"])
    /\ UNCHANGED <<dsMounted, dsLoading, dataSources, modalVisible,
                   editingSource, dsLoads, dsStarted, dsToggles, dsToggled,
                   lastToggle>>
    /\ NotSources

\* FileDataSources / APIDataSources: Enable All and Disable All, disabled
\* while the list is empty
handleToggleAllDataSources(enable) ==
    /\ dsMounted
    /\ ~modalVisible
    /\ Len(dataSources) # 0
    /\ bulkToggleStart("handleToggleAllDataSources", dataSources, enable,
                       "No Data Sources")

\* variant: the File Monitor handler maps over the whole list
handleToggleAllFileMonitorsUnfiltered(enable) ==
    /\ dsMounted
    /\ ~modalVisible
    /\ Len(SelectSeq(dataSources,
                     LAMBDA source : source.sourceType = 0)) # 0
    /\ bulkToggleStart("handleToggleAllFileMonitors", dataSources, enable,
                       "No File Monitors")

\* DataSources: Enable All and Disable All of the File Monitors, disabled
\* while the list holds none
handleToggleAllFileMonitors(enable) ==
    /\ dsMounted
    /\ ~modalVisible
    /\ Len(SelectSeq(dataSources,
                     LAMBDA source : source.sourceType = 0)) # 0
    /\ bulkToggleStart("handleToggleAllFileMonitors",
                       SelectSeq(dataSources,
                           LAMBDA source : source.sourceType = LocalFolder),
                       enable, "No File Monitors")

\* DataSources: Enable All and Disable All of the API data sources
handleToggleAllApiDataSources(enable) ==
    /\ dsMounted
    /\ ~modalVisible
    /\ Len(SelectSeq(dataSources,
                     LAMBDA source : source.sourceType = 1)) # 0
    /\ bulkToggleStart("handleToggleAllApiDataSources",
                       SelectSeq(dataSources,
                           LAMBDA source : source.sourceType = Api),
                       enable, "No API Data Sources")

BulkSuccessTitle(handler) ==
    CASE handler = "handleToggleAllDataSources" -> "Bulk Data Source Update"
      [] handler = "handleToggleAllFileMonitors" -> "Bulk File Monitor Update"
      [] handler = "handleToggleAllApiDataSources"
             -> "Bulk API Data Source Update"

BulkErrorTitle(handler) ==
    CASE handler = "handleToggleAllDataSources"
             -> "Bulk Data Source Update Error"
      [] handler = "handleToggleAllFileMonitors"
             -> "Bulk File Monitor Update Error"
      [] handler = "handleToggleAllApiDataSources"
             -> "Bulk API Data Source Update Error"

\* one update of bulk toggle k resolves; when it was the last one and none
\* was rejected, Promise.all resolves: success notification and reload
bulkUpdateFulfilled(k, id) ==
    /\ k \in 1..Len(dsBulk)
    /\ id \in dsBulk[k].pending
    /\ LET op == dsBulk[k]
           last == op.pending = {id} /\ op.outcome = "pending"
       IN IF last
          THEN /\ dsBulk' = [dsBulk EXCEPT ![k].pending = {},
                                ![k].fulfilled = @ \cup {id},
                                ![k].outcome = "ok"]
               /\ notifications' =
                      showNotification(notifications, "success",
                                       BulkSuccessTitle(op.handler))
               /\ loadDataSourcesStart
          ELSE /\ dsBulk' = [dsBulk EXCEPT ![k].pending = @ \ {id},
                                ![k].fulfilled = @ \cup {id}]
               /\ UNCHANGED <<notifications, dsLoads, dsStarted, dsLoading>>
    /\ UNCHANGED <<dsMounted, dataSources, modalVisible, editingSource,
                   dsToggles, dsToggled, lastToggle>>
    /\ NotSources

\* one update of bulk toggle k rejects; the first rejection rejects
\* Promise.all and the catch block runs
bulkUpdateRejected(k, id) ==
    /\ k \in 1..Len(dsBulk)
    /\ id \in dsBulk[k].pending
    /\ IF dsBulk[k].outcome = "pending"
       THEN /\ dsBulk' = [dsBulk EXCEPT ![k].pending = @ \ {id},
                             ![k].outcome = "failed"]
            /\ notifications' =
                   showNotification(notifications, "error",
                                    BulkErrorTitle(dsBulk[k].handler))
       ELSE /\ dsBulk' = [dsBulk EXCEPT ![k].pending = @ \ {id}]
            /\ UNCHANGED notifications
    /\ UNCHANGED <<dsMounted, dsLoading, dataSources, modalVisible,
                   editingSource, dsLoads, dsStarted, dsToggles, dsToggled,
                   lastToggle>>
    /\ NotSources

\* ------------------------------------------------------------------------
\* Upload processor queue page (UploadProcessor)
\* ------------------------------------------------------------------------
QueueItemStatus ==
    [Pending |-> 0, Processing |-> 1, Uploading |-> 2, Completed |-> 3,
     Failed |-> 4, Archived |-> 5]

Tabs == {"all", "pending", "failed"}

\* the queue items the backend holds: one failed, one pending, one completed
ProcItems ==
    <<[id |-> 1, status |-> QueueItemStatus.Failed,
       attemptCount |-> 1, maxRetries |-> 3],
      [id |-> 2, status |-> QueueItemStatus.Pending,
       attemptCount |-> 0, maxRetries |-> 3],
      [id |-> 3, status |-> QueueItemStatus.Completed,
       attemptCount |-> 1, maxRetries |-> 3]>>

\* the queue as the backend may hold it when a request is answered
Queues ==
    {<<>>, ProcItems, <<ProcItems[2], ProcItems[3]>>}

IsPendingItem(item) == item.status = QueueItemStatus.Pending
IsFailedItem(item) == item.status = QueueItemStatus.Failed

\* what the endpoint of a tab answers: /all, /pending, /failed
EndpointResponses(tab) ==
    CASE tab = "pending" -> {SelectSeq(q, IsPendingItem) : q \in Queues}
      [] tab = "failed" -> {SelectSeq(q, IsFailedItem) : q \in Queues}
      [] OTHER -> Queues

\* what /summary answers
Summaries == {[isNull |-> FALSE, totalFiles |-> Len(q)] : q \in Queues}

canRetry(item) ==
    /\ \/ item.status = QueueItemStatus.Failed
       \/ item.status = QueueItemStatus.Pending
    /\ item.attemptCount < item.maxRetries

InitProc ==
    /\ upMounted = FALSE
    /\ upLoading = TRUE
    /\ retrying = {}
    /\ upReprocess = {}
    /\ queueItems = <<>>
    /\ summary = [isNull |-> TRUE]
    /\ activeTab = "all"
    /\ upLoads = [k \in {"queue"} \cup (Tabs \ {"all"}) |-> 0]
    /\ upStarted = 0
    /\ upRetried = 0
    /\ lastResponse = [t \in Tabs |-> [answered |-> FALSE]]

NotProc ==
    UNCHANGED <<apiVars, pollVars, queueVars, dashVars, hubVars, utilVars,
                sourceVars, hookVars, azureVars>>

\* loadQueueData ("queue") or loadTabData(tab) up to its await, n times
procLoadStart(kind, n) ==
    /\ upStarted + n <= MaxProcLoads
    /\ upStarted' = upStarted + n
    /\ upLoads' = [upLoads EXCEPT ![kind] = @ + n]
    /\ upLoading' = TRUE

\* the page mounts: both effects run, and with activeTab = 'all' each of
\* them calls loadQueueData()
ProcMount ==
    /\ ~upMounted
    /\ upMounted' = TRUE
    /\ procLoadStart("queue", IF activeTab # "all" THEN 1 ELSE 2)
    /\ UNCHANGED <<retrying, upReprocess, queueItems, summary, activeTab,
                   upRetried, lastResponse, notifications>>
    /\ NotProc

\* the Refresh button: onClick={() => loadQueueData()}
ProcRefreshClick ==
    /\ upMounted
    /\ procLoadStart("queue", 1)
    /\ UNCHANGED <<upMounted, retrying, upReprocess, queueItems, summary,
                   activeTab, upRetried, lastResponse, notifications>>
    /\ NotProc

\* the user selects another tab: setActiveTab, then the [activeTab] effect
setActiveTab(tab) ==
    /\ upMounted
    /\ tab # activeTab
    /\ activeTab' = tab
    /\ procLoadStart(IF tab # "all" THEN tab ELSE "queue", 1)
    /\ UNCHANGED <<upMounted, retrying, upReprocess, queueItems, summary,
                   upRetried, lastResponse, notifications>>
    /\ NotProc

\* Promise.all of loadQueueData is fulfilled
loadQueueDataFulfilled(items, total) ==
    /\ upLoads["queue"] > 0
    /\ upLoads' = [upLoads EXCEPT !["queue"] = @ - 1]
    /\ queueItems' = items
    /\ summary' = total
    /\ upLoading' = FALSE
    /\ lastResponse' =
           [lastResponse EXCEPT
                !["all"] = [answered |-> TRUE, items |-> items]]
    /\ UNCHANGED <<upMounted, retrying, upReprocess, activeTab, upStarted,
                   upRetried, notifications>>
    /\ NotProc

\* a request of a load is rejected: the catch and the finally
procLoadRejected(kind) ==
    /\ upLoads[kind] > 0
    /\ upLoads' = [upLoads EXCEPT ![kind] = @ - 1]
    /\ notifications' = showNotification(notifications, "error", "Load Error")
    /\ upLoading' = FALSE
    /\ UNCHANGED <<upMounted, retrying, upReprocess, queueItems, summary,
                   activeTab, upStarted, upRetried, lastResponse>>
    /\ NotProc

loadQueueDataRejected == procLoadRejected("queue")

\* the request of loadTabData(tab) is fulfilled
loadTabDataFulfilled(tab, items) ==
    /\ upLoads[tab] > 0
    /\ upLoads' = [upLoads EXCEPT ![tab] = @ - 1]
    /\ queueItems' = items
    /\ upLoading' = FALSE
    /\ lastResponse' =
           [lastResponse EXCEPT
                ![tab] = [answered |-> TRUE, items |-> items]]
    /\ UNCHANGED <<upMounted, retrying, upReprocess, summary, activeTab,
                   upStarted, upRetried, notifications>>
    /\ NotProc

loadTabDataRejected(tab) == procLoadRejected(tab)

\* the Retry button of row i, up to the await; the table is covered by its
\* spinner while loading, and the button by its own while retrying has the
\* id: setRetrying(prev => new Set(prev).add(item.id)), then the request
handleRetry(i) ==
    /\ upMounted
    /\ ~upLoading
    /\ i \in DOMAIN queueItems
    /\ canRetry(queueItems[i])
    /\ queueItems[i].id \notin retrying
    /\ upRetried < MaxProcRetries
    /\ upRetried' = upRetried + 1
    /\ retrying' = retrying \cup {queueItems[i].id}
    /\ upReprocess' = upReprocess \cup {queueItems[i].id}
    /\ UNCHANGED <<upMounted, upLoading, queueItems, summary, activeTab,
                   upLoads, upStarted, lastResponse, notifications>>
    /\ NotProc

\* reprocessQueueItem(id) is fulfilled: notification, loadQueueData(), finally
handleRetryFulfilled(id) ==
    /\ id \in upReprocess
    /\ upReprocess' = upReprocess \ {id}
    /\ notifications' =
           showNotification(notifications, "success", "Retry Initiated")
    /\ procLoadStart("queue", 1)
    /\ retrying' = retrying \ {id}
    /\ UNCHANGED <<upMounted, queueItems, summary, activeTab, upRetried,
                   lastResponse>>
    /\ NotProc

\* variant: the id is removed in the try block only, not in a finally
handleRetryRejectedKeeps(id) ==
    /\ id \in upReprocess
    /\ upReprocess' = upReprocess \ {id}
    /\ notifications' =
           showNotification(notifications, "error", "Retry Error")
    /\ UNCHANGED <<upMounted, upLoading, retrying, queueItems, summary,
                   activeTab, upLoads, upStarted, upRetried, lastResponse>>
    /\ NotProc

\* reprocessQueueItem(id) is rejected: the catch and the finally
handleRetryRejected(id) ==
    /\ id \in upReprocess
    /\ upReprocess' = upReprocess \ {id}
    /\ notifications' =
           showNotification(notifications, "error", "Retry Error")
    /\ retrying' = retrying \ {id}
    /\ UNCHANGED <<upMounted, upLoading, queueItems, summary, activeTab,
                   upLoads, upStarted, upRetried, lastResponse>>
    /\ NotProc

\* ------------------------------------------------------------------------
\* Polling hook (usePolling)
\* ------------------------------------------------------------------------
NoData == "null"                       \* useState<T | null>(null)
NoError == "null"                      \* useState<any>(null)
NoTimer == 0                           \* useRef<NodeJS.Timeout | null>(null)
PollResults == {"r1", "r2"}            \* what asyncFunction resolves with
PollErrors == {"e1", "e2"}             \* what asyncFunction rejects with

InitHook ==
    /\ hookPhase = "initial"
    /\ immediate = TRUE
    /\ mountedRef = TRUE
    /\ intervalRef = NoTimer
    /\ hookTimers = {}
    /\ hookData = NoData
    /\ hookLoading = FALSE
    /\ hookError = NoError
    /\ polls = 0
    /\ pollCalls = 0
    /\ hookHandles = 0
    /\ lastPoll = [step |-> "none", n |-> 0]

NotHook ==
    UNCHANGED <<apiVars, pollVars, notifications, queueVars, dashVars,
                hubVars, utilVars, sourceVars, procVars, azureVars>>

\* pollData up to its await, with mountedRef.current = isMounted:
\* if (!mountedRef.current) return; setLoading(true); setError(null);
\* await asyncFunction()
pollData(isMounted) ==
    IF isMounted
    THEN /\ pollCalls < MaxHookPolls
         /\ hookLoading' = TRUE
         /\ hookError' = NoError
         /\ polls' = polls + 1
         /\ pollCalls' = pollCalls + 1
         /\ lastPoll' = [step |-> "start", n |-> lastPoll.n + 1]
         /\ UNCHANGED hookData
    ELSE UNCHANGED <<hookData, hookLoading, hookError, polls, pollCalls, lastPoll>>

\* startPolling with intervalRef.current = handle and
\* mountedRef.current = isMounted; the handle a cleanup has just cleared is
\* no longer live
startPolling(handle, isMounted) ==
    IF handle # NoTimer
    THEN UNCHANGED <<intervalRef, hookTimers, hookHandles, hookData, hookLoading,
                     hookError, polls, pollCalls, lastPoll>>
    ELSE /\ hookHandles < MaxHookTimers
         /\ IF immediate'
            THEN pollData(isMounted)
            ELSE UNCHANGED <<hookData, hookLoading, hookError, polls, pollCalls,
                             lastPoll>>
         /\ hookHandles' = hookHandles + 1
         /\ intervalRef' = hookHandles + 1
         /\ hookTimers' = (hookTimers \ {intervalRef}) \cup {hookHandles + 1}

\* stopPolling: clearInterval(intervalRef.current); intervalRef.current = null
stopPolling ==
    /\ intervalRef' = NoTimer
    /\ hookTimers' = hookTimers \ {intervalRef}

\* the effect runs for the first time:
\* mountedRef.current = true; startPolling()
HookMount(imm) ==
    /\ hookPhase = "initial"
    /\ hookPhase' = "mounted"
    /\ immediate' = imm
    /\ mountedRef' = TRUE
    /\ startPolling(intervalRef, TRUE)
    /\ NotHook

\* interval changes: the cleanup runs (mountedRef.current = false;
\* stopPolling()), then the effect runs again
HookIntervalChange ==
    /\ hookPhase = "mounted"
    /\ UNCHANGED <<hookPhase, immediate>>
    /\ mountedRef' = TRUE
    /\ startPolling(NoTimer, TRUE)
    /\ NotHook

\* the component unmounts: mountedRef.current = false; stopPolling()
HookUnmount ==
    /\ hookPhase = "mounted"
    /\ hookPhase' = "unmounted"
    /\ mountedRef' = FALSE
    /\ stopPolling
    /\ UNCHANGED <<immediate, hookData, hookLoading, hookError, polls, pollCalls,
                   hookHandles, lastPoll>>
    /\ NotHook

\* a live interval fires: pollData()
HookTimerTick(h) ==
    /\ h \in hookTimers
    /\ pollData(mountedRef)
    /\ UNCHANGED <<hookPhase, immediate, mountedRef, intervalRef,
                   hookTimers, hookHandles>>
    /\ NotHook

\* the consumer calls refresh(): return pollData()
refreshData ==
    /\ hookPhase # "initial"
    /\ pollData(mountedRef)
    /\ UNCHANGED <<hookPhase, immediate, mountedRef, intervalRef,
                   hookTimers, hookHandles>>
    /\ NotHook

\* the consumer calls startPolling()
startPollingCall ==
    /\ hookPhase # "initial"
    /\ UNCHANGED <<hookPhase, immediate, mountedRef>>
    /\ startPolling(intervalRef, mountedRef)
    /\ NotHook

\* the consumer calls stopPolling()
stopPollingCall ==
    /\ hookPhase # "initial"
    /\ intervalRef # NoTimer
    /\ stopPolling
    /\ UNCHANGED <<hookPhase, immediate, mountedRef, hookData, hookLoading, hookError,
                   polls, pollCalls, hookHandles, lastPoll>>
    /\ NotHook

\* variant: the result is stored whether or not the component is mounted
pollFulfilledUnguarded(result) ==
    /\ polls > 0
    /\ polls' = polls - 1
    /\ lastPoll' = [step |-> "fulfilled", n |-> lastPoll.n + 1,
                    result |-> result, mountedRef |-> mountedRef]
    /\ hookData' = result
    /\ hookLoading' = IF mountedRef THEN FALSE ELSE hookLoading
    /\ UNCHANGED <<hookPhase, immediate, mountedRef, intervalRef,
                   hookTimers, hookError, pollCalls, hookHandles>>
    /\ NotHook

\* asyncFunction resolves: if (mountedRef.current) setData(result);
\* finally: if (mountedRef.current) setLoading(false)
pollFulfilled(result) ==
    /\ polls > 0
    /\ polls' = polls - 1
    /\ lastPoll' = [step |-> "fulfilled", n |-> lastPoll.n + 1,
                    result |-> result, mountedRef |-> mountedRef]
    /\ hookData' = IF mountedRef THEN result ELSE hookData
    /\ hookLoading' = IF mountedRef THEN FALSE ELSE hookLoading
    /\ UNCHANGED <<hookPhase, immediate, mountedRef, intervalRef,
                   hookTimers, hookError, pollCalls, hookHandles>>
    /\ NotHook

\* asyncFunction rejects: if (mountedRef.current) setError(err);
\* finally: if (mountedRef.current) setLoading(false)
pollRejected(err) ==
    /\ polls > 0
    /\ polls' = polls - 1
    /\ lastPoll' = [step |-> "rejected", n |-> lastPoll.n + 1,
                    err |-> err, mountedRef |-> mountedRef]
    /\ hookError' = IF mountedRef THEN err ELSE hookError
    /\ hookLoading' = IF mountedRef THEN FALSE ELSE hookLoading
    /\ UNCHANGED <<hookPhase, immediate, mountedRef, intervalRef,
                   hookTimers, hookData, pollCalls, hookHandles>>
    /\ NotHook

\* ------------------------------------------------------------------------
\* Azure storage page (AzureStorage)
\* ------------------------------------------------------------------------
NoContainer == "null"                  \* useState<string | null>(null)
NoAccount == ""                        \* accountName absent, null or empty
BlobNames == {"a", "b"}

\* response.data of getAzureStorageInfo
InfoResponses ==
    { [isConnected |-> TRUE, accountName |-> "acct",
       containers |-> <<"c1", "c2">>],
      [isConnected |-> TRUE, accountName |-> NoAccount],
      [isConnected |-> FALSE, accountName |-> NoAccount,
       containers |-> <<"c1">>] }

\* response.data.blobs of listBlobs
BlobLists == {<<>>, <<"a">>, <<"b", "a">>}

\* what takes loadBlobs to its catch block: the request is rejected, or
\* response.data.blobs is not an array and .map throws
LoadBlobsFailures == {"rejected", "malformed"}

InitAzure ==
    /\ azMounted = FALSE
    /\ azLoading = TRUE
    /\ azureInfo = Null
    /\ containers = <<>>
    /\ selectedContainer = NoContainer
    /\ blobs = <<>>
    /\ infoLoads = 0
    /\ blobLoads = {}
    /\ blobDeletes = {}
    /\ azStarted = [info |-> 0, blobs |-> 0, deletes |-> 0]
    /\ lastListed = [id |-> 0, containerName |-> NoContainer,
                     accountName |-> NoAccount, names |-> <<>>]

NotAzure ==
    UNCHANGED <<apiVars, pollVars, queueVars, dashVars, hubVars, utilVars,
                sourceVars, procVars, hookVars>>

\* requests started so far, with the listBlobs every pending deletion is
\* going to start
AzureRequests ==
    azStarted.info + azStarted.blobs + azStarted.deletes
        + Cardinality(blobDeletes)

\* azureInfo?.accountName, as the test of the conditional reads it
accountNameOf(info) ==
    IF info = Null THEN NoAccount ELSE info.accountName

\* response.data.blobs.map((name) => ({ name, url: accountName ? `https://
\* ${accountName}.blob.core.windows.net/${containerName}/${name}`
\* : undefined }))
blobItems(names, accountName, containerName) ==
    [i \in 1..Len(names) |->
        [name |-> names[i],
         url |-> IF accountName # NoAccount
                 THEN [account |-> accountName,
                       container |-> containerName, blob |-> names[i]]
                 ELSE Undefined]]

\* apiService.listBlobs(containerName), sent from a closure whose azureInfo
\* has the account name accountName
listBlobsRequest(containerName, accountName) ==
    [id |-> azStarted.blobs + 1, containerName |-> containerName,
     accountName |-> accountName]

\* useEffect(() => { loadAzureInfo(); }, [])
AzureMount ==
    /\ ~azMounted
    /\ azMounted' = TRUE
    /\ infoLoads' = infoLoads + 1
    /\ azStarted' = [azStarted EXCEPT !.info = @ + 1]
    /\ UNCHANGED <<azLoading, azureInfo, containers, selectedContainer,
                   blobs, blobLoads, blobDeletes, lastListed,
                   notifications>>
    /\ NotAzure

\* Refresh of the page header (rendered once loading is false):
\* loadAzureInfo up to its await
loadAzureInfo ==
    /\ azMounted
    /\ ~azLoading
    /\ AzureRequests < MaxAzureRequests
    /\ infoLoads' = infoLoads + 1
    /\ azStarted' = [azStarted EXCEPT !.info = @ + 1]
    /\ UNCHANGED <<azMounted, azLoading, azureInfo, containers,
                   selectedContainer, blobs, blobLoads, blobDeletes,
                   lastListed, notifications>>
    /\ NotAzure

\* setAzureInfo(response.data); if (response.data.isConnected)
\* setContainers(response.data.containers || []); finally setLoading(false)
loadAzureInfoFulfilled(info) ==
    /\ infoLoads > 0
    /\ infoLoads' = infoLoads - 1
    /\ azureInfo' = info
    /\ containers' =
           IF info.isConnected
           THEN IF "containers" \in DOMAIN info
                THEN info.containers ELSE <<>>
           ELSE containers
    /\ azLoading' = FALSE
    /\ UNCHANGED <<azMounted, selectedContainer, blobs, blobLoads,
                   blobDeletes, azStarted, lastListed, notifications>>
    /\ NotAzure

\* catch: showNotification('error', 'Load Error', ...); finally
\* setLoading(false)
loadAzureInfoRejected ==
    /\ infoLoads > 0
    /\ infoLoads' = infoLoads - 1
    /\ notifications' =
           showNotification(notifications, "error", "Load Error")
    /\ azLoading' = FALSE
    /\ UNCHANGED <<azMounted, azureInfo, containers, selectedContainer,
                   blobs, blobLoads, blobDeletes, azStarted, lastListed>>
    /\ NotAzure

\* the container names a click can pass to loadBlobs: View Blobs of a row
\* of the containers table, Refresh of the blobs card
Clickable ==
    {containers[i] : i \in 1..Len(containers)}
        \cup (IF selectedContainer # NoContainer
              THEN {selectedContainer} ELSE {})

\* variant: the container is selected when the request goes out
loadBlobsSelectsFirst(containerName) ==
    /\ azMounted
    /\ ~azLoading
    /\ containerName \in Clickable
    /\ AzureRequests < MaxAzureRequests
    /\ blobLoads' = blobLoads \cup
           {listBlobsRequest(containerName, accountNameOf(azureInfo))}
    /\ azStarted' = [azStarted EXCEPT !.blobs = @ + 1]
    /\ selectedContainer' = containerName
    /\ UNCHANGED <<azMounted, azLoading, azureInfo, containers, blobs,
                   infoLoads, blobDeletes, lastListed, notifications>>
    /\ NotAzure

\* loadBlobs(containerName) up to its await
loadBlobs(containerName) ==
    /\ azMounted
    /\ ~azLoading
    /\ containerName \in Clickable
    /\ AzureRequests < MaxAzureRequests
    /\ blobLoads' = blobLoads \cup
           {listBlobsRequest(containerName, accountNameOf(azureInfo))}
    /\ azStarted' = [azStarted EXCEPT !.blobs = @ + 1]
    /\ UNCHANGED <<azMounted, azLoading, azureInfo, containers,
                   selectedContainer, blobs, infoLoads, blobDeletes,
                   lastListed, notifications>>
    /\ NotAzure

\* the response of request r arrives with response.data.blobs = names:
\* setBlobs(blobItems); setSelectedContainer(containerName)
loadBlobsFulfilled(r, names) ==
    /\ r \in blobLoads
    /\ blobLoads' = blobLoads \ {r}
    /\ blobs' = blobItems(names, r.accountName, r.containerName)
    /\ selectedContainer' = r.containerName
    /\ lastListed' = [id |-> r.id, containerName |-> r.containerName,
                      accountName |-> r.accountName, names |-> names]
    /\ UNCHANGED <<azMounted, azLoading, azureInfo, containers, infoLoads,
                   blobDeletes, azStarted, notifications>>
    /\ NotAzure

\* request r fails: catch: showNotification('error', 'Load Error', ...)
loadBlobsCatch(r, failure) ==
    /\ r \in blobLoads
    /\ failure \in LoadBlobsFailures
    /\ blobLoads' = blobLoads \ {r}
    /\ notifications' =
           showNotification(notifications, "error", "Load Error")
    /\ UNCHANGED <<azMounted, azLoading, azureInfo, containers,
                   selectedContainer, blobs, infoLoads, blobDeletes,
                   azStarted, lastListed>>
    /\ NotAzure

\* handleDeleteBlob(blobName) up to its await, for a row of the blobs
\* table (rendered while a container is selected)
handleDeleteBlob(blobName) ==
    /\ azMounted
    /\ ~azLoading
    /\ selectedContainer # NoContainer
    /\ \E i \in 1..Len(blobs) : blobs[i].name = blobName
    /\ AzureRequests + 1 < MaxAzureRequests
    /\ blobDeletes' = blobDeletes \cup
           {[id |-> azStarted.deletes + 1, blobName |-> blobName,
             containerName |-> selectedContainer,
             accountName |-> accountNameOf(azureInfo)]}
    /\ azStarted' = [azStarted EXCEPT !.deletes = @ + 1]
    /\ UNCHANGED <<azMounted, azLoading, azureInfo, containers,
                   selectedContainer, blobs, infoLoads, blobLoads,
                   lastListed, notifications>>
    /\ NotAzure

\* deleteBlob resolves: showNotification('success', 'Deleted', ...);
\* await loadBlobs(selectedContainer), both of the closure of the click
deleteBlobFulfilled(d) ==
    /\ d \in blobDeletes
    /\ blobDeletes' = blobDeletes \ {d}
    /\ notifications' =
           showNotification(notifications, "success", "Deleted")
    /\ blobLoads' = blobLoads \cup
           {listBlobsRequest(d.containerName, d.accountName)}
    /\ azStarted' = [azStarted EXCEPT !.blobs = @ + 1]
    /\ UNCHANGED <<azMounted, azLoading, azureInfo, containers,
                   selectedContainer, blobs, infoLoads, lastListed>>
    /\ NotAzure

\* deleteBlob rejects: catch: showNotification('error', 'Delete Error', ...)
deleteBlobRejected(d) ==
    /\ d \in blobDeletes
    /\ blobDeletes' = blobDeletes \ {d}
    /\ notifications' =
           showNotification(notifications, "error", "Delete Error")
    /\ UNCHANGED <<azMounted, azLoading, azureInfo, containers,
                   selectedContainer, blobs, infoLoads, blobLoads,
                   azStarted, lastListed>>
    /\ NotAzure

\* ------------------------------------------------------------------------
\* Specifications
\* ------------------------------------------------------------------------
Init ==
    /\ InitApi
    /\ InitPoll
    /\ notifications = <<>>
    /\ InitQueue
    /\ InitDash
    /\ InitHub
    /\ InitUtil
    /\ InitSources
    /\ InitProc
    /\ InitHook
    /\ InitAzure

NextApi ==
    \/ \E v \in StoredValues : StoreToken(v)
    \/ SendRequest
    \/ \E i \in 1..Len(requests) : ReceiveResponse(i)
    \/ \E i \in 1..Len(requests), e \in Errors : ReceiveError(i, e)
    \/ \E key \in {"logout", "profile"} : onUserMenuClick(key)

SpecApi == Init /\ [][NextApi]_vars

NextPoll ==
    \/ \E c \in Components : Mount(c)
    \/ \E c \in Components : Unmount(c)
    \/ \E c \in Components, h \in 1..MaxTimers : IntervalTick(c, h)
    \/ \E c \in Components : PollLoadSettles(c)

SpecPoll == Init /\ [][NextPoll]_vars

NextQueue ==
    \/ QueueMount
    \/ QueueUnmount
    \/ QueueIntervalTick
    \/ QueueRefreshClick
    \/ \E st \in ProcessorStatuses, uploads \in BriefResponses :
           loadDataFulfilled(st, uploads)
    \/ loadDataRejected
    \/ \E ok \in BOOLEAN : orphanLoadSettles(ok)
    \/ QueueToggleClick
    \/ \E t \in {"pause", "start"}, ok \in BOOLEAN : QueueToggleSettles(t, ok)
    \/ QueueTimeoutFires
    \/ \E st \in StatusOptions : SetFilters([filters EXCEPT !.status = st])
    \/ \E ft \in FileTypeOptions : SetFilters([filters EXCEPT !.fileType = ft])
    \/ \E se \in SearchInputs : SetFilters([filters EXCEPT !.search = se])
    \/ SetFilters(DefaultFilters)

SpecQueue == Init /\ [][NextQueue]_vars

NextDash ==
    \/ DashMount
    \/ DashUnmount
    \/ DashIntervalTick
    \/ handleRefresh
    \/ \E run \in dRuns, fulfilled \in SettleOutcomes :
           loadDashboardDataSettles(run, fulfilled)
    \/ \E service \in {"processor", "monitoring"} : handleToggle(service)
    \/ \E t \in dToggles, ok \in BOOLEAN : handleToggleSettles(t, ok)
    \/ \E to \in dTimeouts : DashTimeoutFires(to)

SpecDash == Init /\ [][NextDash]_vars

\* the upload queue page with the full range of responses and filters
NextFilter ==
    \/ QueueMount
    \/ QueueRefreshClick
    \/ \E uploads \in QueueResponses :
           loadDataFulfilled([isNull |-> FALSE, isRunning |-> TRUE], uploads)
    \/ \E st \in StatusOptions : SetFilters([filters EXCEPT !.status = st])
    \/ \E ft \in FileTypeOptions : SetFilters([filters EXCEPT !.fileType = ft])
    \/ \E se \in SearchInputs : SetFilters([filters EXCEPT !.search = se])
    \/ SetFilters(DefaultFilters)

SpecFilter == Init /\ [][NextFilter]_vars

\* the live list of the SignalR provider under the server's upload events
NextLive ==
    \/ HubMount
    \/ \E c \in 1..Len(hubs) : StartSucceeds(c)
    \/ \E c \in 1..Len(hubs), data \in ProgressMessages :
           HandleProgress(c, data)
    \/ \E c \in 1..Len(hubs), data \in FinishMessages :
           HandleCompleted(c, data)
    \/ \E c \in 1..Len(hubs), data \in FinishMessages : HandleFailed(c, data)
    \/ \E c \in 1..Len(hubs) : HandleProcessorStatus(c)

SpecLive == Init /\ [][NextLive]_vars

\* the connections of the SignalR provider and the requests of apiClient
NextHub ==
    \/ HubMount
    \/ HubUnmount
    \/ reconnect
    \/ \E c \in 1..Len(hubs) : StartSucceeds(c)
    \/ \E c \in 1..Len(hubs) : StartFails(c)
    \/ \E c \in 1..Len(hubs) : JoinFulfilled(c)
    \/ \E c \in 1..Len(hubs) : JoinRejected(c)
    \/ \E c \in 1..Len(hubs) : ConnectionLost(c)
    \/ \E c \in 1..Len(hubs) : ReconnectSucceeds(c)
    \/ \E c \in 1..Len(hubs) : ReconnectFails(c)
    \/ \E c \in 1..Len(hubs) : ReconnectGivesUp(c)

SpecHub == Init /\ [][NextHub]_vars

\* the connection attempts of the SignalR provider next to the failing
\* requests of apiClient
NextRetry ==
    \/ HubMount
    \/ reconnect
    \/ \E c \in 1..Len(hubs) : StartSucceeds(c)
    \/ \E c \in 1..Len(hubs) : StartFails(c)
    \/ \E c \in 1..Len(hubs) : ConnectionLost(c)
    \/ \E c \in 1..Len(hubs) : ReconnectSucceeds(c)
    \/ \E c \in 1..Len(hubs) : ReconnectFails(c)
    \/ \E c \in 1..Len(hubs) : ReconnectGivesUp(c)
    \/ SendRequest
    \/ \E i \in 1..Len(requests), e \in Errors : ReceiveError(i, e)

SpecRetry == Init /\ [][NextRetry]_vars

\* the utility functions over their inputs
NextUtil ==
    \/ \E error \in ThrownErrors, defaultMessage \in DefaultMessages :
           CallHandleApiError(error, defaultMessage)
    \/ \E status \in FileStatusValues : CallGetStatusString(status)
    \/ \E status \in StatusValues : CallGetStatusColor(status)

SpecUtil == Init /\ [][NextUtil]_vars

\* formatFileSize over its inputs
NextFormat == \E bytes \in SizeInputs : CallFormatFileSize(bytes)

SpecFormat == Init /\ [][NextFormat]_vars

\* the normalization of recent uploads over its inputs
NextNormalize ==
    \E recentUploads \in RecentUploadLists :
        CallNormalizeRecentUploads(recentUploads, Text(<<"n", "o", "w">>))

SpecNormalize == Init /\ [][NextNormalize]_vars

\* the settings round trip over the configuration entries
NextSettings == \E config \in Configurations : LoadThenSave(config)

SpecSettings == Init /\ [][NextSettings]_vars

NextUsePolling ==
    \/ \E imm \in BOOLEAN : HookMount(imm)
    \/ HookIntervalChange
    \/ HookUnmount
    \/ \E h \in 1..MaxHookTimers : HookTimerTick(h)
    \/ refreshData
    \/ startPollingCall
    \/ stopPollingCall
    \/ \E result \in PollResults : pollFulfilled(result)
    \/ \E err \in PollErrors : pollRejected(err)

SpecUsePolling == Init /\ [][NextUsePolling]_vars

NextAzure ==
    \/ AzureMount
    \/ loadAzureInfo
    \/ \E info \in InfoResponses : loadAzureInfoFulfilled(info)
    \/ loadAzureInfoRejected
    \/ \E containerName \in Clickable : loadBlobs(containerName)
    \/ \E r \in blobLoads : \E names \in BlobLists :
           loadBlobsFulfilled(r, names)
    \/ \E r \in blobLoads : \E failure \in LoadBlobsFailures :
           loadBlobsCatch(r, failure)
    \/ \E blobName \in BlobNames : handleDeleteBlob(blobName)
    \/ \E d \in blobDeletes : deleteBlobFulfilled(d)
    \/ \E d \in blobDeletes : deleteBlobRejected(d)

SpecAzure == Init /\ [][NextAzure]_vars

\* the data sources page
NextSources ==
    \/ SourcesMount
    \/ SourcesRefreshClick
    \/ \E list \in SourceLists : loadDataSourcesFulfilled(list)
    \/ loadDataSourcesRejected
    \/ handleCreateNew
    \/ \E i \in 1..Len(dataSources) : handleEdit(i)
    \/ onCancel
    \/ \E i \in 1..Len(dataSources) : handleToggleStatus(i)
    \/ \E t \in dsToggles : handleToggleStatusFulfilled(t)
    \/ \E t \in dsToggles : handleToggleStatusRejected(t)

SpecSources == Init /\ [][NextSources]_vars

\* the bulk toggles of the data sources page
NextBulk ==
    \/ SourcesMount
    \/ \E list \in SourceLists : loadDataSourcesFulfilled(list)
    \/ \E enable \in BOOLEAN : handleToggleAllDataSources(enable)
    \/ \E enable \in BOOLEAN : handleToggleAllFileMonitors(enable)
    \/ \E enable \in BOOLEAN : handleToggleAllApiDataSources(enable)
    \/ \E k \in 1..Len(dsBulk), id \in 1..MaxSources :
           bulkUpdateFulfilled(k, id)
    \/ \E k \in 1..Len(dsBulk), id \in 1..MaxSources :
           bulkUpdateRejected(k, id)

SpecBulk == Init /\ [][NextBulk]_vars

NextProc ==
    \/ ProcMount
    \/ ProcRefreshClick
    \/ \E tab \in Tabs : setActiveTab(tab)
    \/ \E items \in Queues, total \in Summaries :
           loadQueueDataFulfilled(items, total)
    \/ loadQueueDataRejected
    \/ \E tab \in Tabs \ {"all"} :
           \E items \in EndpointResponses(tab) :
               loadTabDataFulfilled(tab, items)
    \/ \E tab \in Tabs \ {"all"} : loadTabDataRejected(tab)
    \/ \E i \in 1..Len(ProcItems) : handleRetry(i)
    \/ \E id \in 1..Len(ProcItems) : handleRetryFulfilled(id)
    \/ \E id \in 1..Len(ProcItems) : handleRetryRejected(id)

SpecProc == Init /\ [][NextProc]_vars

\* ------------------------------------------------------------------------
\* Properties
\* ------------------------------------------------------------------------

\* C1: an error passing through the response interceptor removes the stored
\* authToken and redirects to /login exactly when its status is 401 (every
\* other error, with or without a response, leaves both untouched), and in
\* every case the error is rejected to the caller.
C1_Unauthorized ==
    lastIntercept.kind = "error" =>
        /\ lastIntercept.outcome = "rejected"
        /\ IF lastIntercept.error.hasResponse
              /\ lastIntercept.error.status = 401
           THEN /\ lastIntercept.storedAfter = NoToken
                /\ lastIntercept.hrefAfter = "/login"
           ELSE /\ lastIntercept.storedAfter = lastIntercept.storedBefore
                /\ lastIntercept.hrefAfter = lastIntercept.hrefBefore

\* a 401 arrived while a token was stored and the page was not at /login
C1_Witness ==
    /\ lastIntercept.kind = "error"
    /\ lastIntercept.error.hasResponse
    /\ lastIntercept.error.status = 401
    /\ lastIntercept.storedBefore = "t1"
    /\ lastIntercept.hrefBefore = "/"
    /\ authToken = NoToken
    /\ href = "/login"

\* C4: every polling component has exactly one interval while mounted and
\* none while unmounted, each mount starts exactly one load, and a load
\* started by the interval is started while its component is mounted.
C4_OneInterval ==
    /\ [](\A c \in Components :
            /\ Cardinality(intervals[c]) = (IF mounted[c] THEN 1 ELSE 0)
            /\ (lastStart.cause = "interval" => lastStart.mountedThen))
    /\ [][\A c \in Components :
            (~mounted[c] /\ mounted'[c]) =>
                /\ pollStarted'[c].mount = pollStarted[c].mount + 1
                /\ pollStarted'[c].interval = pollStarted[c].interval
                /\ intervals'[c] # intervals[c]]_vars

\* a component was mounted, unmounted and mounted again, and its interval
\* has fired
C4_Witness ==
    \E c \in Components :
        /\ mounted[c]
        /\ pollStarted[c].mount = 2
        /\ pollStarted[c].interval >= 1

\* the class of a file name by its extension (the text after the last '.')
ExtensionClass(fileName) ==
    LET extension == toLowerCase(splitPop(fileName))
    IN IF extension = JsonExt THEN "json"
       ELSE IF extension \in ImageExts THEN "image"
       ELSE "other"

MatchesFilters(item) ==
    /\ (filters.status # "all" =>
           toLowerLabel(getStatusString(item.status))
               = toLowerLabel(filters.status))
    /\ (filters.fileType # "all" =>
           ExtensionClass(item.fileName) = filters.fileType)
    /\ (filters.search # <<>> =>
           includes(toLowerCase(item.fileName), toLowerCase(filters.search)))

\* C5: after the filter effect has run, filteredData is exactly the sub-list
\* of queueData, in order, of the items that satisfy every active filter
\* (status label, extension class, search text, all case-insensitive).
C5_FilteredSublist ==
    filteredData = SelectSeq(queueData, MatchesFilters)

\* two uploads are loaded, all three filters are active and exactly one
\* upload, whose name and extension are upper case, passes them
C5_Witness ==
    /\ qMounted
    /\ Len(queueData) = 2
    /\ filters.status = "failed"
    /\ filters.fileType = "image"
    /\ filters.search = <<"p">>
    /\ Len(filteredData) = 1
    /\ filteredData[1].id = 2

\* C8: no two loadData tasks of the upload queue page, which all write
\* loading, processorStatus and queueData, are in flight at the same time.
C8_NoOverlap ==
    qInFlight <= 1

\* the run that settled last wrote the state now displayed
LastRunDisplayed ==
    /\ lastRun.cause # "none"
    /\ lastRun.live
    /\ dMounted
    /\ lastRun.inst = dInstance

\* C2: every failed request of a page handler is caught and produces an
\* error notification; here: a loadDashboardData call in which some request
\* was rejected has shown the 'Dashboard Error' notification.
C2_FailuresNotified ==
    (lastRun.cause # "none" /\ lastRun.fulfilled # DashRequests)
        => Shown("error", "Dashboard Error") >= 1

\* C3 as stated: after a loadDashboardData call, every field whose request
\* was rejected is unset (null or empty) and every field whose request was
\* fulfilled holds the response of that call.
C3_RejectedUnset ==
    LastRunDisplayed =>
        \A f \in DashFields :
            dashboardData[f] =
                (IF RequestOf(f) \in lastRun.fulfilled THEN lastRun.id
                 ELSE Unset)

\* C3 amended: a field whose request was rejected holds the value it had in
\* the dashboardData captured by the closure that ran the call, which is
\* the initial unset value for the mount and interval loads; a field whose
\* request was fulfilled holds the response of that call.
C3_RejectedKeepsCaptured ==
    LastRunDisplayed =>
        /\ \A f \in DashFields :
              dashboardData[f] =
                  (IF RequestOf(f) \in lastRun.fulfilled THEN lastRun.id
                   ELSE lastRun.snapshot[f])
        /\ (lastRun.cause \in {"mount", "interval"}
              => lastRun.snapshot = InitialDashboardData)

\* a manual refresh in which the health request was rejected and the Azure
\* request fulfilled: systemHealth still shows the first load's response
C3_Witness ==
    /\ LastRunDisplayed
    /\ lastRun.cause = "refresh"
    /\ lastRun.id = 2
    /\ "health" \notin lastRun.fulfilled
    /\ "azure" \in lastRun.fulfilled
    /\ dashboardData["systemHealth"] = 1
    /\ dashboardData["azureInfo"] = 2

\* C10: a request carries Authorization: Bearer <t> exactly when
\* localStorage held the non-empty token t when it was issued, and no
\* request issued after a 401 or a logout (and before a token is stored
\* again) carries the header.
C10_Bearer ==
    \A i \in 1..Len(requests) :
        /\ (requests[i].storedAtIssue \in Tokens
              => requests[i].Authorization
                   = <<"Bearer", requests[i].storedAtIssue>>)
        /\ (requests[i].storedAtIssue \notin Tokens
              => requests[i].Authorization = NoHeader)
        /\ (requests[i].clearedAtIssue
              => requests[i].Authorization = NoHeader)

\* one request went out with a token, a 401 cleared it, and a later request
\* went out without the header
C10_Witness ==
    \E i, j \in 1..Len(requests) :
        /\ i < j
        /\ requests[i].Authorization = <<"Bearer", "t1">>
        /\ requests[i].state = "rejected"
        /\ requests[j].clearedAtIssue
        /\ requests[j].Authorization = NoHeader

\* the positions of uploadUpdates that hold an entry for upload x
EntriesOf(x) ==
    {i \in 1..Len(uploadUpdates) : uploadUpdates[i].uploadId = x}

\* C6: after any sequence of progress, completion and failure events,
\* uploadUpdates holds at most one entry per uploadId, and the entry of an
\* id carries the fields of the progress event handled last for that id.
C6_OneEntryPerUpload ==
    hMounted =>
        \A x \in UploadIds :
            /\ Cardinality(EntriesOf(x)) <= 1
            /\ \A i \in EntriesOf(x) :
                  /\ lastHandled[x].kind = "progress"
                  /\ uploadUpdates[i].fileName = lastHandled[x].data.FileName
                  /\ uploadUpdates[i].percentComplete
                        = lastHandled[x].data.PercentComplete
                  /\ uploadUpdates[i].bytesUploaded
                        = lastHandled[x].data.BytesUploaded
                  /\ uploadUpdates[i].totalBytes
                        = lastHandled[x].data.TotalBytes
                  /\ uploadUpdates[i].timestamp = lastHandled[x].time

\* u1 reported 10 %, u2 reported, then u1 reported 50 %: the list holds u2
\* followed by the newer entry of u1
C6_Witness ==
    /\ hMounted
    /\ Len(uploadUpdates) = 2
    /\ uploadUpdates[1].uploadId = "u2"
    /\ uploadUpdates[2].uploadId = "u1"
    /\ uploadUpdates[2].percentComplete = 50
    /\ uploadUpdates[2].timestamp = 3

\* C7 as stated: once an UploadCompleted or UploadFailed event for upload X
\* has been handled, uploadUpdates never again holds an entry for X.
C7_AbsentFromThenOn ==
    hMounted =>
        \A x \in UploadIds : lastHandled[x].finished => EntriesOf(x) = {}

\* C7 amended: handling UploadCompleted or UploadFailed for X removes the
\* entry of X and leaves the other entries as they were, and X stays absent
\* for as long as no later UploadProgressUpdated event for X is handled.
C7_AbsentUntilProgress ==
    /\ [](hMounted =>
            \A x \in UploadIds :
                lastHandled[x].kind \in {"completed", "failed"}
                    => EntriesOf(x) = {})
    /\ [][\A x \in UploadIds :
            (/\ hMounted
             /\ lastHandled'[x] # lastHandled[x]
             /\ lastHandled'[x].kind \in {"completed", "failed"})
                => uploadUpdates' =
                       SelectSeq(uploadUpdates,
                                 LAMBDA item : item.uploadId # x)]_vars

\* u1 and u2 were both in progress when u1 completed: only the entry of u2
\* is left
C7_Witness ==
    /\ hMounted
    /\ lastHandled["u1"].kind = "completed"
    /\ lastHandled["u1"].time = 3
    /\ lastHandled["u2"].kind = "progress"
    /\ Len(uploadUpdates) = 1
    /\ uploadUpdates[1].uploadId = "u2"

\* C9 as stated: after a request or connection attempt has failed, the
\* client does not try again on its own; an attempt on a connection that has
\* a failed attempt behind it is caused by a mount or a user action.
C9_NeverRetries ==
    \A j \in 1..Len(attempts) :
        (\E i \in 1..(j - 1) :
            /\ attempts[i].conn = attempts[j].conn
            /\ attempts[i].result = "failed")
          => attempts[j].cause \in {"mount", "user"}

\* C9 amended: start() is called once per connectToHub call and a failed
\* start() is not tried again; automatic attempts are made only to
\* re-establish a connection whose start() had succeeded; and the step in
\* which apiClient rejects a failed request issues no request.
C9_RetriesOnlyReconnect ==
    /\ [](\A c \in 1..Len(hubs) :
            Cardinality({i \in 1..Len(attempts) :
                            /\ attempts[i].conn = c
                            /\ attempts[i].cause # "auto"}) = 1)
    /\ [](\A j \in 1..Len(attempts) :
            attempts[j].cause = "auto" =>
                \E i \in 1..(j - 1) :
                    /\ attempts[i].conn = attempts[j].conn
                    /\ attempts[i].cause \in {"mount", "user"}
                    /\ attempts[i].result = "ok")
    /\ [][(\E i \in 1..Len(requests) :
              /\ requests[i].state = "pending"
              /\ requests'[i].state = "rejected")
            => Len(requests') = Len(requests)]_vars

\* the first connection was lost and its first automatic attempt failed
\* before a second one succeeded, the start() of a second connection failed
\* and was left at that, and a request was rejected
C9_Witness ==
    /\ Len(attempts) = 4
    /\ \E i, j \in 1..Len(attempts) :
          /\ i < j
          /\ attempts[i] = [conn |-> 1, cause |-> "auto", result |-> "failed"]
          /\ attempts[j] = [conn |-> 1, cause |-> "auto", result |-> "ok"]
    /\ \E i \in 1..Len(attempts) :
          attempts[i] = [conn |-> 2, cause |-> "user", result |-> "failed"]
    /\ hubs[2].link = "closed"
    /\ \E i \in 1..Len(requests) : requests[i].state = "rejected"

\* the first truthy value of a list of candidates, its last one when none is
RECURSIVE FirstTruthy(_)
FirstTruthy(candidates) ==
    IF Len(candidates) = 1 \/ IsTruthy(Head(candidates))
    THEN Head(candidates)
    ELSE FirstTruthy(Tail(candidates))

\* C11: for every error object, handleApiError does not throw and returns
\* {message, details, status, data}: message is the first truthy of
\* response.data.message, response.data.Error, error.message and the default
\* message; details the first truthy of response.data.Details and
\* response.data.details, else ''; status and data are those of the
\* response, undefined when there is none.
C11_Normalized ==
    (lastCall.fn = "handleApiError" /\ lastCall.error.t = "object") =>
        LET error == lastCall.error
            hasResponse == error.response.t = "object"
            body == IF hasResponse THEN error.response.data ELSE Undefined
            field(name) == IF body.t = "object" THEN body[name] ELSE Undefined
            default == IF lastCall.defaultMessage = Undefined
                       THEN Str("An error occurred")
                       ELSE lastCall.defaultMessage
        IN /\ lastCall.result # TypeError
           /\ DOMAIN lastCall.result
                = {"message", "details", "status", "data"}
           /\ lastCall.result.message =
                FirstTruthy(<<field("message"), field("Error"),
                              error.message, default>>)
           /\ lastCall.result.details =
                FirstTruthy(<<field("Details"), field("details"), Str("")>>)
           /\ lastCall.result.status =
                (IF hasResponse THEN error.response.status ELSE Undefined)
           /\ lastCall.result.data = body

\* a response whose body has an empty message and a text in Error and in
\* details: Error wins over error.message, details is taken from details
C11_Witness ==
    /\ lastCall.fn = "handleApiError"
    /\ lastCall.error.t = "object"
    /\ lastCall.error.message = Str("Network Error")
    /\ lastCall.error.response.t = "object"
    /\ lastCall.error.response.data.t = "object"
    /\ lastCall.error.response.data.message = Str("")
    /\ lastCall.error.response.data.Error = Str("Err")
    /\ lastCall.error.response.data.Details = Undefined
    /\ lastCall.error.response.data.details = Str("det")
    /\ lastCall.result.message = Str("Err")
    /\ lastCall.result.details = Str("det")
    /\ lastCall.result.status = Num(500)

\* how often a notification with this type and title is in the bag
ShownIn(bag, type, title) ==
    IF <<type, title>> \in DOMAIN bag THEN bag[<<type, title>>] ELSE 0

\* the flag the list displays for source id: "none" when it is not listed
DisplayedFlag(list, id) ==
    IF \E i \in 1..Len(list) : list[i].id = id
    THEN LET i == CHOOSE i \in 1..Len(list) : list[i].id = id
         IN IF list[i].isEnabled THEN "enabled" ELSE "disabled"
    ELSE "none"

\* C12 as stated: at the click that toggles a data source, before the
\* update request has completed, the flag displayed for it changes.
C12_OptimisticFlag ==
    [][dsToggled' = dsToggled + 1 =>
          DisplayedFlag(dataSources', lastToggle'.source.id)
              # DisplayedFlag(dataSources, lastToggle'.source.id)]_vars

\* C12 amended: neither the click that toggles a data source nor the
\* completion of its update request changes the displayed list; a
\* successful update issues a reload, and the displayed flags change only
\* when a response of loadDataSources arrives.
C12_FlagAfterReload ==
    /\ [][(dsToggled' # dsToggled \/ dsToggles' # dsToggles)
             => dataSources' = dataSources]_vars
    /\ [][(lastToggle' # lastToggle /\ lastToggle'.outcome = "ok")
             => dsLoads' = dsLoads + 1]_vars
    /\ [][dataSources' # dataSources => dsLoads' = dsLoads - 1]_vars

\* a toggle succeeded, its reload has returned, and only now the list shows
\* the flag of the toggled source flipped
C12_Witness ==
    /\ lastToggle.n = 1
    /\ lastToggle.outcome = "ok"
    /\ lastToggle.source.isEnabled
    /\ dsStarted = 2
    /\ dsLoads = 0
    /\ DisplayedFlag(dataSources, lastToggle.source.id) = "disabled"

\* C15: the click of a single toggle and the failure of its update request
\* leave the displayed list, the modal state and the editing target as they
\* were; the failure shows one error notification, no success notification
\* and issues no reload.
C15_FailedToggleFrame ==
    /\ [][dsToggled' # dsToggled =>
             /\ dataSources' = dataSources
             /\ modalVisible' = modalVisible
             /\ editingSource' = editingSource]_vars
    /\ [][(lastToggle' # lastToggle /\ lastToggle'.outcome = "failed") =>
             /\ dataSources' = dataSources
             /\ modalVisible' = modalVisible
             /\ editingSource' = editingSource
             /\ ShownIn(notifications', "error", "Data Source Update Error")
                  = ShownIn(notifications, "error",
                            "Data Source Update Error") + 1
             /\ ShownIn(notifications', "success",
                        "Data Source Status Updated")
                  = ShownIn(notifications, "success",
                            "Data Source Status Updated")
             /\ dsStarted' = dsStarted
             /\ dsLoads' = dsLoads]_vars

\* the update of a toggle failed while the edit modal, opened after the
\* click, shows another source: the list is the loaded one and only the
\* mount has loaded
C15_Witness ==
    /\ lastToggle.n = 1
    /\ lastToggle.outcome = "failed"
    /\ Len(dataSources) = 2
    /\ modalVisible
    /\ editingSource # NoSource
    /\ Shown("error", "Data Source Update Error") = 1
    /\ Shown("success", "Data Source Status Updated") = 0
    /\ dsStarted = 1

\* the sources of a list that a bulk handler targets
TargetedBy(handler, list) ==
    {i \in 1..Len(list) :
        \/ handler = "handleToggleAllDataSources"
        \/ handler = "handleToggleAllFileMonitors"
             /\ list[i].sourceType = LocalFolder
        \/ handler = "handleToggleAllApiDataSources"
             /\ list[i].sourceType = Api}

BulkHandlers == {"handleToggleAllDataSources", "handleToggleAllFileMonitors",
                 "handleToggleAllApiDataSources"}

\* C16: a bulk toggle sends exactly one update per listed source of the
\* targeted type, each with isEnabled set to the requested value, and none
\* for other sources; with no targeted source it sends nothing; the success
\* notification is shown and the list reloaded only when every one of those
\* updates has succeeded.
C16_BulkToggle ==
    /\ [](\A k \in 1..Len(dsBulk) :
            LET op == dsBulk[k]
                targeted == TargetedBy(op.handler, op.listed)
            IN /\ op.sent = {[id |-> op.listed[i].id,
                              sourceType |-> op.listed[i].sourceType,
                              isEnabled |-> op.enable] : i \in targeted}
               /\ Cardinality(op.sent) = Cardinality(targeted)
               /\ (op.outcome = "ok" =>
                     op.fulfilled = {op.listed[i].id : i \in targeted})
               /\ (targeted = {} => op.outcome = "none"))
    /\ [](\A h \in BulkHandlers :
            Shown("success", BulkSuccessTitle(h)) =
                Cardinality({k \in 1..Len(dsBulk) :
                                /\ dsBulk[k].handler = h
                                /\ dsBulk[k].outcome = "ok"}))
    /\ [][(dsMounted /\ dsStarted' # dsStarted) =>
             \E k \in 1..Len(dsBulk) :
                 /\ dsBulk[k].outcome = "pending"
                 /\ dsBulk'[k].outcome = "ok"]_vars

\* a folder and an API source are listed, all File Monitors were enabled
\* with one update, for the folder alone; it succeeded and the list was
\* reloaded
C16_Witness ==
    /\ Len(dsBulk) = 1
    /\ dsBulk[1].handler = "handleToggleAllFileMonitors"
    /\ dsBulk[1].enable
    /\ Len(dsBulk[1].listed) = 2
    /\ {u.id : u \in dsBulk[1].sent} = {1}
    /\ dsBulk[1].outcome = "ok"
    /\ dsBulk[1].fulfilled = {1}
    /\ dsStarted = 2
    /\ Shown("success", "Bulk File Monitor Update") = 1

\* the labels of the FileStatus values 0..5, in order
FileStatusLabels ==
    <<"Pending", "Processing", "Uploading", "Completed", "Failed",
      "Canceled">>

\* two words are equal up to the case of their letters
EqualsIgnoreCase(a, b) ==
    /\ Len(a) = Len(b)
    /\ \A i \in 1..Len(a) : ToLowerChar(a[i]) = ToLowerChar(b[i])

\* the colour of the group a word belongs to, ignoring case
ColourOfWord(word) ==
    IF \E l \in SuccessLabels : EqualsIgnoreCase(word, l) THEN "#52c41a"
    ELSE IF \E l \in FailureLabels : EqualsIgnoreCase(word, l) THEN "#ff4d4f"
    ELSE IF \E l \in BusyLabels : EqualsIgnoreCase(word, l) THEN "#faad14"
    ELSE IF \E l \in IdleLabels : EqualsIgnoreCase(word, l) THEN "#d9d9d9"
    ELSE "#1890ff"

\* C13 as stated: getStatusString maps 0..5 to its six labels and any other
\* value to 'Unknown'; getStatusColor maps a string to the colour of its
\* label, ignoring case, and every input that is not a string (undefined,
\* null, numbers, arrays, objects) to the default blue.
C13_NonStringsBlue ==
    /\ (lastCall.fn = "getStatusString" =>
          lastCall.result =
              (IF lastCall.status \in 0..5
               THEN FileStatusLabels[lastCall.status + 1] ELSE "Unknown"))
    /\ (lastCall.fn = "getStatusColor" =>
          lastCall.result =
              (IF lastCall.status.t = "string"
               THEN ColourOfWord(lastCall.status.chars) ELSE "#1890ff"))

\* C13 amended: as stated for getStatusString and for strings; undefined,
\* null and every other falsy value get the default blue; a truthy value
\* that is not a string gets the colour of its String() conversion, which
\* is blue for numbers, booleans and plain objects but the label's colour
\* for an array whose only element is a label.
C13_StatusLookup ==
    /\ (lastCall.fn = "getStatusString" =>
          lastCall.result =
              (IF lastCall.status \in 0..5
               THEN FileStatusLabels[lastCall.status + 1] ELSE "Unknown"))
    /\ (lastCall.fn = "getStatusColor" =>
          LET status == lastCall.status
          IN lastCall.result =
                 (CASE status.t = "string" -> ColourOfWord(status.chars)
                    [] status.t \in {"undefined", "null"} -> "#1890ff"
                    [] status.t = "number" -> "#1890ff"
                    [] status.t = "boolean" -> "#1890ff"
                    [] status.t = "object" -> "#1890ff"
                    [] status.t = "array" ->
                           IF Len(status.items) = 1
                           THEN ColourOfWord(status.items[1].chars)
                           ELSE "#1890ff"))

\* the label FAILED in upper case was given its red
C13_Witness ==
    /\ lastCall.fn = "getStatusColor"
    /\ lastCall.status = Text(<<"F", "A", "I", "L", "E", "D">>)
    /\ lastCall.result = "#ff4d4f"

\* no load and no retry of the upload processor page awaits a response
NoProcRequest ==
    /\ \A k \in DOMAIN upLoads : upLoads[k] = 0
    /\ retrying = {}

\* C14: whenever no request of the upload processor page is in flight,
\* queueItems is the most recent response of the endpoint of the active tab
\* (once that endpoint has answered)
C14_ActiveTabShown ==
    (upMounted /\ NoProcRequest /\ lastResponse[activeTab].answered)
        => queueItems = lastResponse[activeTab].items

\* C17: whenever connectionStatus is 'Connected' the provider's connection
\* is non-null, after any sequence of connect, reconnect(), close,
\* reconnecting and reconnected events
C17_ConnectedHasConnection ==
    connectionStatus = "Connected" => connection # NoConnection

\* the connections that have started and have not closed
Started == {c \in 1..Len(hubs) : hubs[c].link \in {"connected", "reconnecting"}}

\* C18: once the provider has unmounted, no connection it started is still
\* running
C18_StoppedOnUnmount ==
    (~hMounted /\ hubs # <<>>) => Started = {}

\* C19: at any time at most one started connection of the provider exists,
\* also after reconnect() was called while a connection was active
C19_OneStartedConnection ==
    Cardinality(Started) <= 1

\* the calls of connectToHub of which a step fails in this step
FailingCalls ==
    {c \in 1..Len(hubs) :
        /\ hubs[c].pc \in {"start", "joinUpload", "joinProcessor"}
        /\ hubs'[c].pc = "failed"}

\* C20: when a step of connectToHub fails (start, JoinUploadGroup or
\* JoinProcessorGroup), the call ends in its catch block: the status of the
\* mounted provider becomes 'Error' and exactly one 'Connection Error'
\* notification is shown
C20_FailureHandled ==
    [][FailingCalls # {} =>
          /\ Cardinality(FailingCalls) = 1
          /\ hMounted => connectionStatus' = "Error"
          /\ Shown("error", "Connection Error")' =
                 Shown("error", "Connection Error") + 1]_vars

\* a join failed after a successful start: the connection is up, the status
\* is 'Error' and one notification was shown
C20_Witness ==
    /\ hMounted
    /\ \E c \in 1..Len(hubs) :
           hubs[c].pc = "failed" /\ hubs[c].link = "connected"
    /\ connectionStatus = "Error"
    /\ Shown("error", "Connection Error") = 1

C22_RetryingIsInFlight ==
    /\ [](retrying = upReprocess)
    /\ [][\A id \in 1..Len(ProcItems) :
            (id \in retrying) # (id \in retrying')
                => (id \in upReprocess) # (id \in upReprocess')]_vars

\* the retry of one item failed and was removed while the retry of another
\* item is still in flight
C22_Witness ==
    /\ Cardinality(retrying) = 1
    /\ upRetried = 2
    /\ Shown("error", "Retry Error") = 1

\* the largest of the four units that does not exceed the byte count
UnitIndex(bytes) ==
    IF FloorLog(bytes) < Len(sizes) THEN FloorLog(bytes) ELSE Len(sizes) - 1

\* bytes / 1024^u rounded to two decimals, in hundredths, for a unit u that
\* is the leading digit's or the one below
RoundedQuotient(bytes, u) ==
    LET whole == DigitAt(bytes, u + 2) * K + DigitAt(bytes, u + 1)
        rest == DigitAt(bytes, u) * K + DigitAt(bytes, u - 1)
    IN whole * 100 + (200 * rest + K * K) \div (2 * K * K)

\* C28: formatFileSize gives '0 Bytes' for 0 and, for a positive count, the
\* largest of the units Bytes, KB, MB, GB that does not exceed the count,
\* with the count divided by that unit and rounded to at most two decimals
C28_SizeLabel ==
    lastCall.fn = "formatFileSize" =>
        IF IsZeroCount(lastCall.bytes)
        THEN lastCall.result = [number |-> <<"0">>, unit |-> "Bytes"]
        ELSE LET u == UnitIndex(lastCall.bytes)
             IN /\ lastCall.result.unit = sizes[u + 1]
                /\ lastCall.result.number =
                       parseFloatText(RoundedQuotient(lastCall.bytes, u))

\* the value an upload carries under the first of the names that it has
RECURSIVE Carried(_, _)
Carried(u, names) ==
    IF names = <<>> THEN Undefined
    ELSE IF u[Head(names)].t \notin {"undefined", "null"} THEN u[Head(names)]
    ELSE Carried(u, Tail(names))

\* the item an upload should be normalized to
ExpectedItem(u, now) ==
    LET name == Carried(u, <<"FileName", "fileName">>)
        size == Carried(u, <<"FileSizeBytes", "fileSizeBytes", "fileSize">>)
        created == Carried(u, <<"CreatedAt", "createdAt">>)
        status == Carried(u, <<"Status", "status">>)
    IN [FileName |-> IF name = Undefined THEN Text(<<>>) ELSE name,
        FileSizeBytes |-> IF size = Undefined THEN Num(0) ELSE size,
        CreatedAt |-> IF created = Undefined THEN now ELSE created,
        Status |-> IF status = Undefined
                   THEN Text(<<"P", "e", "n", "d", "i", "n", "g">>)
                   ELSE status]

\* C26: the normalization keeps length and order, and each item carries the
\* file name, size in bytes, creation time and status of its upload in either
\* backend shape, the defaults standing in only for fields the upload lacks
C26_UploadsNormalized ==
    (lastCall.fn = "normalizeRecentUploads"
        /\ lastCall.recentUploads.t = "array") =>
        LET uploads == lastCall.recentUploads.items
            items == lastCall.result
        IN /\ Len(items) = Len(uploads)
           /\ \A i \in 1..Len(uploads) :
                 LET expected == ExpectedItem(uploads[i], lastCall.now)
                 IN /\ items[i].FileName = expected.FileName
                    /\ items[i].FileSizeBytes = expected.FileSizeBytes
                    /\ items[i].CreatedAt = expected.CreatedAt
                    /\ items[i].Status = expected.Status

\* C25 as stated: an entry that was loaded and saved unedited is sent with
\* the value string, description and category it was loaded with
C25_RoundTrip ==
    lastCall.fn = "setConfigRequest" =>
        /\ lastCall.request.key = lastCall.config.key
        /\ lastCall.request.value = lastCall.config.value
        /\ lastCall.request.description = lastCall.config.description
        /\ lastCall.request.category = lastCall.config.category


\* C27: usePolling writes none of data, error and loading once its
\* component has unmounted, also when a poll that started before the unmount
\* completes after it; while the component is mounted a failed poll sets
\* error to what was thrown and leaves data as it was, data only ever
\* changes to the result of the poll that has just succeeded, and a poll
\* that starts sets error back to null.
C27_WritesOnlyWhileMounted ==
    [][/\ hookPhase' = "unmounted" =>
              UNCHANGED <<hookData, hookLoading, hookError>>
       /\ lastPoll' # lastPoll /\ hookPhase = "mounted" =>
              /\ lastPoll'.step = "rejected" =>
                     /\ hookError' = lastPoll'.err
                     /\ hookData' = hookData
              /\ lastPoll'.step = "start" => hookError' = NoError
       /\ hookData' # hookData =>
              /\ lastPoll'.step = "fulfilled"
              /\ hookData' = lastPoll'.result]_vars

\* C27 happens: after an earlier success and an earlier failure, a poll that
\* was started while mounted resolves with another result after the unmount
C27_Witness ==
    /\ hookPhase = "unmounted"
    /\ lastPoll.step = "fulfilled"
    /\ ~lastPoll.mountedRef
    /\ hookData \in PollResults \ {lastPoll.result}
    /\ hookError \in PollErrors

\* C23: on the Azure storage page, whenever a container is selected, blobs
\* is the list made from the listBlobs response applied last and that
\* response is the one of a request for the selected container; a step that
\* applies no listBlobs response (a failed listBlobs among them) changes
\* neither selectedContainer nor blobs, whatever the order of the responses.
C23_BlobsOfSelectedContainer ==
    /\ [](selectedContainer # NoContainer =>
              /\ lastListed.containerName = selectedContainer
              /\ blobs = blobItems(lastListed.names, lastListed.accountName,
                                   selectedContainer))
    /\ [][lastListed' = lastListed =>
              UNCHANGED <<selectedContainer, blobs>>]_vars

\* C23 happens: two overlapping requests for different containers were
\* answered in the opposite order, both successfully, and a later one failed
C23_Witness ==
    /\ azStarted.blobs = 3
    /\ blobLoads = {}
    /\ lastListed.id = 1
    /\ selectedContainer = lastListed.containerName
    /\ blobs # <<>>
    /\ <<"error", "Load Error">> \in DOMAIN notifications
    /\ notifications[<<"error", "Load Error">>] = 1


\* C21: a refresh of the dashboard started by the 30 second timer and one
\* started by the Refresh button end in the same dashboardData when they
\* start from the same dashboardData and get the same fulfilled and
\* rejected responses: whichever of the two started the load, the sections
\* whose request was fulfilled hold the new response and the other sections
\* hold what the page held when the load started.
C21_SameResultForTimerAndButton ==
    /\ dMounted
    /\ lastRun.cause \in {"interval", "refresh"}
    /\ lastRun.live
    /\ lastRun.inst = dInstance
    => dashboardData =
           settledData([id |-> lastRun.id, snapshot |-> lastRun.shown],
                       lastRun.fulfilled)

\* what C21 states does hold for the Refresh button
C21_ButtonKeepsShown ==
    /\ dMounted
    /\ lastRun.cause = "refresh"
    /\ lastRun.live
    /\ lastRun.inst = dInstance
    => dashboardData =
           settledData([id |-> lastRun.id, snapshot |-> lastRun.shown],
                       lastRun.fulfilled)

====
